---- MODULE Spec2Model ----
(***************************************************************************)
(* Order fulfilment and inventory consistency of warungin-backend:         *)
(* transaction.Handler.Create / Void and inventory.Handler.UpdateStock     *)
(* over the Product, RawMaterial, ProductMaterial, Transaction and         *)
(* TransactionAuditLog tables.                                             *)
(*                                                                         *)
(* Quantities and amounts are integers: material stock and money are       *)
(* float64 in the code, the values used here are exactly representable.    *)
(* Durations are in seconds.  The store is PostgreSQL (gorm postgres       *)
(* driver): a statement that fails inside a transaction aborts the         *)
(* transaction, every later statement of it fails, and only ROLLBACK ends  *)
(* it.                                                                     *)
(***************************************************************************)
EXTENDS Integers, Sequences, FiniteSets, TLC

VARIABLES
  products,       \* products table: id -> row
  materials,      \* raw_materials table: id -> row
  links,          \* product_materials table: set of rows
  transactions,   \* transactions table with its items: id -> row, ids 1, 2, ...
  auditLogs,      \* transaction_audit_logs table, in insertion order
  activityLogs,   \* activity_logs table, in insertion order
  resp,           \* the response being returned to the client, Idle between requests
  last,           \* the last unit of work that committed
  adjustments,    \* manual stock adjustments applied so far
  inflight        \* the requests that run concurrently: request -> its locals

dbvars == <<products, materials, links, transactions, auditLogs, activityLogs>>
vars ==
  <<products, materials, links, transactions, auditLogs, activityLogs,
    resp, last, adjustments, inflight>>

----
\* Bounds of the exploration
MaxTx == 2          \* committed transactions
MaxStock == 2       \* cap on manual stock adjustments upward
MaxAdjust == 1      \* manual stock adjustments applied
MaxLinks == 5        \* product_materials rows
NumReq == 2         \* requests that run concurrently
MaxLogs == 2        \* activity log rows

----
\* Identifiers and request inputs
Tenants == {"T1", "T2"}
ProductIDs == {"P1", "P2", "P3"}
MaterialIDs == {"M1", "M2"}

\* database.User rows (role column), and the (tenant_id, user_id) pairs the
\* auth middleware puts in the request context; u_gone has a token but no row.
Users ==
  [u \in {"u_owner", "u_manager", "u_cashier", "u_staff", "u_owner2"} |->
     CASE u = "u_owner"   -> [tenant_id |-> "T1", role |-> "owner"]
       [] u = "u_manager" -> [tenant_id |-> "T1", role |-> "manager"]
       [] u = "u_cashier" -> [tenant_id |-> "T1", role |-> "cashier"]
       [] u = "u_staff"   -> [tenant_id |-> "T1", role |-> "staff"]
       [] u = "u_owner2"  -> [tenant_id |-> "T2", role |-> "owner"]]

Sessions ==
  {[tenant_id |-> Users[u].tenant_id, user_id |-> u] : u \in DOMAIN Users}
    \cup {[tenant_id |-> "T1", user_id |-> "u_gone"]}

\* time.Minute and time.Hour multiples of Void, in seconds
fiveMinutes == 300
oneDay == 86400

\* A write statement of the unit of work that the store rejects; idx is the
\* position of the item whose statement fails
NoFault == [stmt |-> "none", idx |-> 0]
CreateFaults ==
  {[stmt |-> "insert", idx |-> 0]}
    \cup {[stmt |-> s, idx |-> i] : s \in {"product", "material"}, i \in 1..2}
VoidFaults ==
  {[stmt |-> "status", idx |-> 0], [stmt |-> "audit", idx |-> 0]}
    \cup {[stmt |-> s, idx |-> i] : s \in {"product", "material"}, i \in 1..2}

Item(p, q) == [product_id |-> p, quantity |-> q]

\* Request bodies of POST /transactions: the empty cart, one unit, the same
\* product twice (more units than in stock), two products that share material
\* M1 with a discount and a tax override, a taxed product, a quantity below
\* one, a product of tenant T2, and a product of another tenant after a good
\* item.  A body names tax when tax_given; CreateRequest names it when it is
\* not 0, TaxOverride names it whatever it is.
CreateRequest(c, d, x) == [items |-> c, discount |-> d, tax |-> x, tax_given |-> x # 0]

TaxOverride(c, d, x) == [items |-> c, discount |-> d, tax |-> x, tax_given |-> TRUE]

CreateRequests ==
  {CreateRequest(<<>>, 0, 0),
   CreateRequest(<<Item("P1", 1)>>, 0, 0),
   CreateRequest(<<Item("P1", 1), Item("P1", 2)>>, 0, 0),
   CreateRequest(<<Item("P1", 1), Item("P2", 2)>>, 50, 7),
   CreateRequest(<<Item("P2", 1)>>, 0, 0),
   TaxOverride(<<Item("P2", 1)>>, 0, 0),
   CreateRequest(<<Item("P1", 0 - 1)>>, 0, 0),
   CreateRequest(<<Item("P3", 1)>>, 0, 0),
   CreateRequest(<<Item("P2", 1), Item("P3", 1)>>, 0, 0)}

\* (tenant, request body, fault): every request of tenant T1, the orders of
\* one unit of one product of tenant T2, and every fault on the two-item
\* requests of tenant T1
CreateInputs ==
  {<<"T1", r, NoFault>> : r \in CreateRequests}
    \cup {<<"T2", r, NoFault>> :
            r \in {q \in CreateRequests : Len(q.items) = 1 /\ q.items[1].quantity = 1}}
    \cup {<<"T1", r, f>> : r \in {q \in CreateRequests : Len(q.items) = 2}, f \in CreateFaults}

VoidRequest(s, id, reason, elapsed, f) ==
  [session |-> s, id |-> id, reason |-> reason, elapsed |-> elapsed, fault |-> f]

Session(u) == CHOOSE s \in Sessions : s.user_id = u

\* POST /transactions/:id/void: on the first transaction each role on both
\* sides of its window, the sessions that are turned away, the owner with
\* each fault and a body without reason, and on every transaction the owner
VoidInputs ==
  {VoidRequest(Session(in[1]), 1, "salah input", in[2], NoFault) :
     in \in {<<"u_manager", oneDay>>, <<"u_manager", oneDay + 1>>,
             <<"u_cashier", fiveMinutes>>, <<"u_cashier", fiveMinutes + 1>>,
             <<"u_staff", fiveMinutes>>, <<"u_owner2", fiveMinutes>>,
             <<"u_gone", fiveMinutes>>}}
    \cup {VoidRequest(Session("u_owner"), id, "salah input", oneDay + 1, NoFault) :
            id \in 1..MaxTx}
    \cup {VoidRequest(Session("u_owner"), 1, "salah input", oneDay + 1, f) :
            f \in VoidFaults}
    \cup {VoidRequest(Session("u_owner"), 1, "", fiveMinutes, NoFault)}

\* PUT /inventory/:id/stock as (tenant, product, quantity): one unit up and
\* down, more units down than any stock, no quantity, another tenant
UpdateStockInputs ==
  {<<"T1", "P1", 1>>, <<"T1", "P1", 0 - 1>>, <<"T1", "P1", 0 - (MaxStock + 1)>>,
   <<"T1", "P1", 0>>, <<"T2", "P1", 1>>}

\* Request bodies of POST /product-materials: a conversion rate above one, no
\* conversion rate, the link that UnlinkMaterial removes, and a body without
\* quantity
LinkMaterialInput(p, m, q, c) ==
  [product_id |-> p, material_id |-> m, quantity_used |-> q, conversion_rate |-> c]

LinkMaterialInputs ==
  {LinkMaterialInput("P2", "M1", 1, 2),
   LinkMaterialInput("P2", "M1", 2, 0),
   LinkMaterialInput("P2", "M2", 1, 1),
   LinkMaterialInput("P1", "M2", 0, 1)}

\* DELETE /product-materials/:product_id/:material_id as (product, material):
\* a link that is there from the start, and a pair that is not linked
UnlinkMaterialInputs == {<<"P2", "M2">>, <<"P1", "M2">>}

\* The orders and voids that run between the changes of the recipes
CatalogCreateInputs ==
  {<<"T1", CreateRequest(<<Item("P2", 1)>>, 0, 0), NoFault>>,
   <<"T1", CreateRequest(<<Item("P2", 2)>>, 50, 7), NoFault>>}

CatalogVoidInputs ==
  {VoidRequest(Session("u_owner"), id, "salah input", oneDay + 1, NoFault) :
     id \in 1..MaxTx}

----
\* The store as one value: the committed rows a unit of work starts from
Store ==
  [products |-> products, materials |-> materials,
   transactions |-> transactions, auditLogs |-> auditLogs,
   activityLogs |-> activityLogs]

\* tx.Commit() makes the unit of work's rows the committed rows
Commit(committed, work) == work

RollbackKeepsWork(committed, work) == work

\* tx.Rollback() discards the unit of work
Rollback(committed, work) == committed

\* What a handler leaves behind: the committed store and the JSON response;
\* tx is the id of the transaction it loaded or wrote (0 when none), done the
\* number of items whose stock statements ran before the handler returned.
Outcome(st, code, error, tx, done) ==
  [store |-> st, code |-> code, error |-> error, tx |-> tx, done |-> done]

\* tx.Where("product_id = ?", item.ProductID).Find(&productMaterials)
ProductMaterials(lks, productID) == {pm \in lks : pm.product_id = productID}

----
\* transaction.Handler.Create

\* ShouldBindJSON: Items carries required,min=1; the tags of the element
\* struct (Quantity required,min=1) are not applied, the slice has no dive tag.
BindCreate(req) == Len(req.items) >= 1

\* a deduction that stops at zero
RECURSIVE DeductMaterialsFloored(_, _, _)
DeductMaterialsFloored(mats, pms, quantity) ==
  IF pms = {} THEN mats
  ELSE LET pm == CHOOSE x \in pms : TRUE
           deduction == pm.quantity_used * quantity
           updated == IF pm.material_id \in DOMAIN mats
                      THEN [mats EXCEPT ![pm.material_id].stock_qty =
                              IF @ - deduction < 0 THEN 0 ELSE @ - deduction]
                      ELSE mats
       IN DeductMaterialsFloored(updated, pms \ {pm}, quantity)

\* the loop over productMaterials that deducts raw materials
RECURSIVE DeductMaterials(_, _, _)
DeductMaterials(mats, pms, quantity) ==
  IF pms = {} THEN mats
  ELSE LET pm == CHOOSE x \in pms : TRUE
           deduction == pm.quantity_used * quantity
           updated == IF pm.material_id \in DOMAIN mats
                      THEN [mats EXCEPT ![pm.material_id].stock_qty = @ - deduction]
                      ELSE mats
       IN DeductMaterials(updated, pms \ {pm}, quantity)

\* a reduction that leaves material-driven products alone
ReduceManualStock(prods, productID, quantity) ==
  IF prods[productID].use_material_stock THEN prods
  ELSE [prods EXCEPT ![productID].stock_qty = @ - quantity]

\* Reduce stock: UPDATE stock_qty = stock_qty - quantity on the product row
ReduceStock(prods, productID, quantity) ==
  [prods EXCEPT ![productID].stock_qty = @ - quantity]

\* a store that carries on after a rejected statement
FailedStatementIgnored(w) == w

\* A statement the store rejected and whose error the handler does not look
\* at: PostgreSQL aborts the database transaction, every later statement of
\* it fails
FailedStatement(w) == [w EXCEPT !.aborted = TRUE]

\* the loop over req.Items; w.code # 0 is the early return after tx.Rollback()
RECURSIVE CreateItems(_, _, _, _, _, _)
CreateItems(w, reqItems, i, tenantID, lks, fault) ==
  IF i > Len(reqItems) \/ w.code # 0 THEN w
  ELSE
    LET item == reqItems[i]
        found == /\ ~w.aborted
                 /\ item.product_id \in DOMAIN w.products
                 /\ w.products[item.product_id].tenant_id = tenantID
    IN IF ~found
       THEN [w EXCEPT !.code = 400, !.error = "Product not found"]
       ELSE
         LET product == w.products[item.product_id]
             itemSubtotal == product.price * item.quantity
             itemTax == (itemSubtotal * product.tax_rate) \div 100
             w1 == [w EXCEPT
                      !.totalTax = @ + itemTax,
                      !.items = Append(@, [product_id |-> item.product_id,
                                           quantity |-> item.quantity,
                                           unit_price |-> product.price,
                                           subtotal |-> itemSubtotal]),
                      !.subtotal = @ + itemSubtotal]
         IN IF fault = [stmt |-> "product", idx |-> i]
            THEN [w1 EXCEPT !.code = 500, !.error = "Failed to update stock"]
            ELSE
              LET w2 == [w1 EXCEPT !.products =
                                     ReduceStock(@, item.product_id, item.quantity)]
                  pms == ProductMaterials(lks, item.product_id)
                  w3 == IF fault = [stmt |-> "material", idx |-> i] /\ pms # {}
                        THEN FailedStatement(w2)
                        ELSE [w2 EXCEPT !.materials = DeductMaterials(@, pms, item.quantity)]
              IN CreateItems([w3 EXCEPT !.done = i], reqItems, i + 1, tenantID, lks, fault)

\* ShouldBindJSON into Tax float64: the tax of the body, 0 when the body
\* names none
BindTax(req) == IF req.tax_given THEN req.tax ELSE 0

\* finalTax: the request's tax, the accumulated item tax when that is 0
FinalTax(reqTax, totalTax) == IF reqTax = 0 THEN totalTax ELSE reqTax

TotalAddsDiscount(subtotal, discount, finalTax) == subtotal + discount + finalTax

Total(subtotal, discount, finalTax) == subtotal - discount + finalTax

\* The readings of time.Now() of one Create: today is the day of the order
\* number query, stamp the day and nano the UnixNano of the invoice number,
\* created_at the day of the row's created_at
Clock(today, stamp, nano, createdAt) ==
  [today |-> today, stamp |-> stamp, nano |-> nano, created_at |-> createdAt]

\* order numbers that continue across days
OrderNumberOfAllDays(txs, tenantID, today) ==
  LET rows == {i \in DOMAIN txs : txs[i].tenant_id = tenantID}
  IN IF rows = {} THEN 1
     ELSE LET lastOrder == CHOOSE i \in rows :
                             \A j \in rows : txs[j].order_number <= txs[i].order_number
          IN txs[lastOrder].order_number + 1

\* orderNumber: 1, or one more than the order_number of the first row of the
\* tenant with DATE(created_at) = today in descending order_number
OrderNumber(txs, tenantID, today) ==
  LET rows == {i \in DOMAIN txs : txs[i].tenant_id = tenantID /\ txs[i].created_at = today}
  IN IF rows = {} THEN 1
     ELSE LET lastOrder == CHOOSE i \in rows :
                             \A j \in rows : txs[j].order_number <= txs[i].order_number
          IN txs[lastOrder].order_number + 1

InvoiceModulus == 10000

\* fmt.Sprintf("INV-%s-%d", ...): the day and the last four digits of UnixNano
InvoiceNumber(now) == <<now.stamp, now.nano % InvoiceModulus>>

\* a store without the unique index
InvoiceNumberFree(txs, invoiceNumber) == FALSE

\* the unique index on invoice_number rejects the row
InvoiceNumberTaken(txs, invoiceNumber) ==
  \E i \in DOMAIN txs : txs[i].invoice_number = invoiceNumber

CreateHandler(st, lks, tenantID, req, fault, now) ==
  IF ~BindCreate(req)
  THEN Outcome(st, 400, "binding", 0, 0)
  ELSE
    LET orderNumber == OrderNumber(st.transactions, tenantID, now.today)
        w0 == [products |-> st.products, materials |-> st.materials,
               items |-> <<>>, subtotal |-> 0, totalTax |-> 0,
               aborted |-> FALSE, code |-> 0, error |-> "", done |-> 0]
        w == CreateItems(w0, req.items, 1, tenantID, lks, fault)
        stocked == [st EXCEPT !.products = w.products, !.materials = w.materials]
    IN IF w.code # 0
       THEN Outcome(Rollback(st, stocked), w.code, w.error, 0, w.done)
       ELSE
         LET finalTax == FinalTax(BindTax(req), w.totalTax)
             total == Total(w.subtotal, req.discount, finalTax)
             invoiceNumber == InvoiceNumber(now)
             transaction == [tenant_id |-> tenantID,
                             invoice_number |-> invoiceNumber,
                             order_number |-> orderNumber,
                             created_at |-> now.created_at,
                             items |-> w.items,
                             subtotal |-> w.subtotal,
                             discount |-> req.discount,
                             tax |-> finalTax,
                             total |-> total,
                             status |-> "completed"]
             work == [stocked EXCEPT !.transactions = Append(@, transaction)]
         IN IF \/ w.aborted
               \/ fault.stmt = "insert"
               \/ InvoiceNumberTaken(st.transactions, invoiceNumber)
            THEN Outcome(Rollback(st, work), 500, "Failed to create transaction", 0, w.done)
            ELSE Outcome(Commit(st, work), 201, "", Len(work.transactions), w.done)

----
\* transaction.Handler.Void

RoleRestrictionExclusive(role, timeSinceCreation) ==
  CASE role = "cashier" ->
         IF timeSinceCreation >= fiveMinutes
         THEN "Kasir hanya dapat membatalkan transaksi dalam 5 menit pertama. Hubungi manager."
         ELSE ""
    [] role = "manager" ->
         IF timeSinceCreation >= oneDay
         THEN "Manager hanya dapat membatalkan transaksi dalam 24 jam. Hubungi owner."
         ELSE ""
    [] role = "owner" -> ""
    [] OTHER -> "Tidak memiliki izin untuk membatalkan transaksi"

AlreadyVoidedIgnored(transaction) == FALSE

\* the check "if transaction.Status == voided"
AlreadyVoided(transaction) == transaction.status = "voided"

\* the switch on user.Role: the error of the 403 response, "" when allowed
RoleRestriction(role, timeSinceCreation) ==
  CASE role = "cashier" ->
         IF timeSinceCreation > fiveMinutes
         THEN "Kasir hanya dapat membatalkan transaksi dalam 5 menit pertama. Hubungi manager."
         ELSE ""
    [] role = "manager" ->
         IF timeSinceCreation > oneDay
         THEN "Manager hanya dapat membatalkan transaksi dalam 24 jam. Hubungi owner."
         ELSE ""
    [] role = "owner" -> ""
    [] OTHER -> "Tidak memiliki izin untuk membatalkan transaksi"

RECURSIVE RestoreMaterialsPerItem(_, _, _)
RestoreMaterialsPerItem(mats, pms, quantity) ==
  IF pms = {} THEN mats
  ELSE LET pm == CHOOSE x \in pms : TRUE
           restoration == pm.quantity_used
           updated == IF pm.material_id \in DOMAIN mats
                      THEN [mats EXCEPT ![pm.material_id].stock_qty = @ + restoration]
                      ELSE mats
       IN RestoreMaterialsPerItem(updated, pms \ {pm}, quantity)

\* the loop over productMaterials that restores raw materials
RECURSIVE RestoreMaterials(_, _, _)
RestoreMaterials(mats, pms, quantity) ==
  IF pms = {} THEN mats
  ELSE LET pm == CHOOSE x \in pms : TRUE
           restoration == pm.quantity_used * quantity
           updated == IF pm.material_id \in DOMAIN mats
                      THEN [mats EXCEPT ![pm.material_id].stock_qty = @ + restoration]
                      ELSE mats
       IN RestoreMaterials(updated, pms \ {pm}, quantity)

\* the loop over transaction.Items
RECURSIVE VoidItems(_, _, _, _, _)
VoidItems(w, items, i, lks, fault) ==
  IF i > Len(items) \/ w.code # 0 THEN w
  ELSE
    LET item == items[i]
    IN IF w.aborted \/ fault = [stmt |-> "product", idx |-> i]
       THEN [w EXCEPT !.code = 500, !.error = "Gagal mengembalikan stok"]
       ELSE
         LET w1 == IF item.product_id \in DOMAIN w.products
                   THEN [w EXCEPT !.products[item.product_id].stock_qty = @ + item.quantity]
                   ELSE w
             pms == ProductMaterials(lks, item.product_id)
             w2 == IF fault = [stmt |-> "material", idx |-> i] /\ pms # {}
                   THEN FailedStatement(w1)
                   ELSE [w1 EXCEPT !.materials = RestoreMaterials(@, pms, item.quantity)]
         IN VoidItems([w2 EXCEPT !.done = i], items, i + 1, lks, fault)

\* an update that writes another status
MarkedRefunded(transaction) == [transaction EXCEPT !.status = "refunded"]

\* tx.Model(&transaction).Update("status", "voided")
MarkedVoided(transaction) == [transaction EXCEPT !.status = "voided"]

\* a snapshot taken from the row after the status update
OldValuesAfterUpdate(transaction) ==
  [status |-> "voided",
   total |-> transaction.total,
   subtotal |-> transaction.subtotal,
   discount |-> transaction.discount,
   tax |-> transaction.tax,
   items |-> transaction.items]

\* oldValuesJSON: the snapshot of the loaded transaction
OldValues(transaction) ==
  [status |-> transaction.status,
   total |-> transaction.total,
   subtotal |-> transaction.subtotal,
   discount |-> transaction.discount,
   tax |-> transaction.tax,
   items |-> transaction.items]

VoidHandler(st, lks, req) ==
  IF req.reason = ""
  THEN Outcome(st, 400, "Alasan pembatalan wajib diisi", 0, 0)
  ELSE IF req.session.user_id \notin DOMAIN Users
  THEN Outcome(st, 401, "User not found", 0, 0)
  ELSE IF ~(/\ req.id \in 1..Len(st.transactions)
            /\ st.transactions[req.id].tenant_id = req.session.tenant_id)
  THEN Outcome(st, 404, "Transaksi tidak ditemukan", 0, 0)
  ELSE
    LET user == Users[req.session.user_id]
        transaction == st.transactions[req.id]
        denied == RoleRestriction(user.role, req.elapsed)
    IN IF AlreadyVoided(transaction)
       THEN Outcome(st, 400, "Transaksi sudah dibatalkan", req.id, 0)
       ELSE IF denied # ""
       THEN Outcome(st, 403, denied, req.id, 0)
       ELSE
         LET oldValues == OldValues(transaction)
             voided == [st EXCEPT !.transactions[req.id] = MarkedVoided(@)]
         IN IF req.fault.stmt = "status"
            THEN Outcome(Rollback(st, st), 500, "Gagal membatalkan transaksi", req.id, 0)
            ELSE
              LET w0 == [products |-> st.products, materials |-> st.materials,
                         aborted |-> FALSE, code |-> 0, error |-> "", done |-> 0]
                  w == VoidItems(w0, transaction.items, 1, lks, req.fault)
                  restored == [voided EXCEPT !.products = w.products,
                                             !.materials = w.materials]
                  auditLog == [tenant_id |-> req.session.tenant_id,
                               transaction_id |-> req.id,
                               action |-> "void",
                               reason |-> req.reason,
                               old_values |-> oldValues,
                               new_values |-> [status |-> "voided"],
                               user_id |-> req.session.user_id]
                  work == [restored EXCEPT !.auditLogs = Append(@, auditLog)]
              IN IF w.code # 0
                 THEN Outcome(Rollback(st, restored), w.code, w.error, req.id, w.done)
                 ELSE IF w.aborted \/ req.fault.stmt = "audit"
                 THEN Outcome(Rollback(st, work), 500, "Gagal mencatat audit log", req.id, w.done)
                 ELSE Outcome(Commit(st, work), 200, "", req.id, w.done)

----
\* inventory.Handler.UpdateStock
UpdateStockHandler(st, tenantID, productID, quantity) ==
  IF quantity = 0
  THEN Outcome(st, 400, "binding", 0, 0)
  ELSE IF ~(productID \in DOMAIN st.products /\ st.products[productID].tenant_id = tenantID)
  THEN Outcome(st, 404, "Product not found", 0, 0)
  ELSE
    LET product == st.products[productID]
        newQty == product.stock_qty + quantity
    IN IF newQty < 0
       THEN Outcome(st, 400, "Stock cannot go below zero", 0, 0)
       ELSE Outcome([st EXCEPT !.products[productID] = [product EXCEPT !.stock_qty = newQty]],
                    200, "", 0, 0)

----
\* material.Handler.LinkMaterial and UnlinkMaterial

\* the id of a new product_materials row
NewLinkID(lks) ==
  CHOOSE id \in 1..(Cardinality(lks) + 1) : \A pm \in lks : pm.id # id

\* conversionRate: the input's rate, 1 when that is not above 0
DefaultConversionRate(rate) == IF rate <= 0 THEN 1 ELSE rate

\* What LinkMaterial leaves behind: the product_materials rows and the status
LinkMaterialHandler(lks, input) ==
  IF input.product_id = "" \/ input.material_id = "" \/ input.quantity_used = 0
  THEN [links |-> lks, code |-> 400]
  ELSE
    LET conversionRate == DefaultConversionRate(input.conversion_rate)
        found == {pm \in lks : /\ pm.product_id = input.product_id
                                /\ pm.material_id = input.material_id}
    IN IF found # {}
       THEN LET existing == CHOOSE x \in found : \A y \in found : x.id <= y.id
                saved == [existing EXCEPT !.quantity_used = input.quantity_used,
                                          !.conversion_rate = conversionRate]
            IN [links |-> (lks \ {existing}) \cup {saved}, code |-> 200]
       ELSE LET link == [id |-> NewLinkID(lks),
                         product_id |-> input.product_id,
                         material_id |-> input.material_id,
                         quantity_used |-> input.quantity_used,
                         conversion_rate |-> conversionRate]
            IN [links |-> lks \cup {link}, code |-> 201]

UnlinkMaterialHandler(lks, productID, materialID) ==
  LET matched == {pm \in lks : pm.product_id = productID /\ pm.material_id = materialID}
  IN IF matched = {}
     THEN [links |-> lks, code |-> 404]
     ELSE [links |-> lks \ matched, code |-> 200]

----
\* activitylog.Logger and product.Handler.ToggleActive

\* the statement of ToggleActive that the store rejects
ToggleFaults == {NoFault, [stmt |-> "save", idx |-> 0], [stmt |-> "log", idx |-> 0]}

\* LogActivity: l.db.Create(&log) and the error it returns
LogActivity(logs, session, action, entityType, entityID, details, fault) ==
  LET log == [tenant_id |-> session.tenant_id,
              user_id |-> session.user_id,
              action |-> action,
              entity_type |-> entityType,
              entity_id |-> entityID,
              details |-> details]
  IN IF fault.stmt = "log"
     THEN [logs |-> logs, err |-> TRUE]
     ELSE [logs |-> Append(logs, log), err |-> FALSE]

LogToggle(logs, session, entityType, entityID, isActive, fault) ==
  LET status == IF isActive THEN "activated" ELSE "deactivated"
  IN LogActivity(logs, session, "toggle", entityType, entityID,
                 [is_active |-> isActive, status |-> status], fault)

\* What ToggleActive leaves behind; the error of LogToggle is dropped
ToggleActiveHandler(st, session, productID, isActive, fault) ==
  IF ~(/\ productID \in DOMAIN st.products
       /\ st.products[productID].tenant_id = session.tenant_id)
  THEN Outcome(st, 404, "Product not found", 0, 0)
  ELSE IF fault.stmt = "save"
  THEN Outcome(st, 500, "Failed to update product", 0, 0)
  ELSE LET saved == [st EXCEPT !.products[productID].is_active = isActive]
           logged == LogToggle(saved.activityLogs, session, "product", productID,
                               isActive, fault)
       IN Outcome([saved EXCEPT !.activityLogs = logged.logs], 200, "", 0, 0)

\* product.Handler.Update

\* CreateProductRequest: the fields of the body that reach the stock and
\* the price (name given)
UpdateProductRequest(price, stockQty, useMaterialStock) ==
  [price |-> price, stock_qty |-> stockQty, use_material_stock |-> useMaterialStock]

LogUpdate(logs, session, entityType, entityID, oldData, newData, fault) ==
  LogActivity(logs, session, "update", entityType, entityID,
              [old |-> oldData, new |-> newData], fault)

\* a save that carries the new price into the items sold
SaveAndReprice(st, productID, product) ==
  [st EXCEPT !.products[productID] = product,
             !.transactions =
               [id \in DOMAIN @ |->
                  [@[id] EXCEPT !.items =
                     [i \in DOMAIN @ |->
                        IF @[i].product_id = productID
                        THEN [@[i] EXCEPT !.unit_price = product.price]
                        ELSE @[i]]]]]

\* h.db.Save(&product): the row of the product, every column
Save(st, productID, product) == [st EXCEPT !.products[productID] = product]

\* What Update leaves behind; the error of LogUpdate is dropped
UpdateHandler(st, session, productID, req, fault) ==
  IF ~(/\ productID \in DOMAIN st.products
       /\ st.products[productID].tenant_id = session.tenant_id)
  THEN Outcome(st, 404, "Product not found", 0, 0)
  ELSE IF req.price = 0
  THEN Outcome(st, 400, "binding", 0, 0)
  ELSE IF fault.stmt = "save"
  THEN Outcome(st, 500, "Failed to update product", 0, 0)
  ELSE LET old == st.products[productID]
           product == [old EXCEPT !.price = req.price,
                                  !.stock_qty = req.stock_qty,
                                  !.use_material_stock = req.use_material_stock]
           saved == Save(st, productID, product)
           logged == LogUpdate(saved.activityLogs, session, "product", productID,
                               [price |-> old.price, stock |-> old.stock_qty],
                               [price |-> product.price, stock |-> product.stock_qty],
                               fault)
       IN Outcome([saved EXCEPT !.activityLogs = logged.logs], 200, "", 0, 0)

----
\* The requests, handled one at a time: a handler runs as a whole and leaves
\* its response in resp, Deliver hands the response to the client.

Snapshot(st) ==
  [p |-> [id \in DOMAIN st.products |-> st.products[id].stock_qty],
   m |-> [id \in DOMAIN st.materials |-> st.materials[id].stock_qty]]

NoSnapshot == [p |-> [id \in ProductIDs |-> 0], m |-> [id \in MaterialIDs |-> 0]]

\* data: the stock figures of a response body, one pair <<product, stock>>
\* per product the body lists
NoData == {}

Response(op, out) ==
  [op |-> op, code |-> out.code, error |-> out.error, tx |-> out.tx,
   done |-> out.done, data |-> NoData]

Idle == [op |-> "idle", code |-> 0, error |-> "", tx |-> 0, done |-> 0, data |-> NoData]

\* last: the operation of the last committed unit of work, its transaction,
\* and the stock levels before it; roundTrip marks a void that committed
\* directly after the creation of the same transaction, before then keeps the
\* stock levels ahead of that creation.
LastWork(op, tx, roundTrip, before) ==
  [op |-> op, tx |-> tx, roundTrip |-> roundTrip, before |-> before]

\* The locals of a request that runs concurrently with others.  wp, wm and wt
\* are the uncommitted writes of its database transaction: the new stock_qty
\* per product row and per raw material row, and the transaction rows whose
\* status it set to voided; the rows it wrote are the rows it holds locked.
Reqs == 1..NumReq

NoWrites == [x \in {} |-> 0]

NewRequest ==
  [op |-> "none", pc |-> "new", tenant_id |-> "", user_id |-> "", reason |-> "",
   cart |-> <<>>, discount |-> 0, tax |-> 0, orderNumber |-> 0, id |-> 0, loaded |-> <<>>,
   i |-> 0, items |-> <<>>, subtotal |-> 0, totalTax |-> 0, pms |-> <<>>,
   wp |-> NoWrites, wm |-> NoWrites, wt |-> {},
   row |-> "", quantity |-> 0, found |-> {}, input |-> <<>>,
   code |-> 0, error |-> ""]

Persist(out) ==
  /\ products' = out.store.products
  /\ materials' = out.store.materials
  /\ transactions' = out.store.transactions
  /\ auditLogs' = out.store.auditLogs
  /\ activityLogs' = out.store.activityLogs

Create(tenantID, req, fault, now) ==
  /\ resp = Idle
  /\ Len(transactions) < MaxTx
  /\ LET out == CreateHandler(Store, links, tenantID, req, fault, now)
     IN /\ Persist(out)
        /\ resp' = Response("create", out)
        /\ last' = IF out.code = 201
                   THEN LastWork("create", out.tx, FALSE, Snapshot(Store))
                   ELSE last
  /\ UNCHANGED <<links, adjustments, inflight>>

Void(req) ==
  /\ resp = Idle
  /\ LET out == VoidHandler(Store, links, req)
         roundTrip == last.op = "create" /\ last.tx = req.id
     IN /\ Persist(out)
        /\ resp' = Response("void", out)
        /\ last' = IF out.code = 200
                   THEN LastWork("void", out.tx, roundTrip,
                                 IF roundTrip THEN last.before ELSE NoSnapshot)
                   ELSE last
  /\ UNCHANGED <<links, adjustments, inflight>>

UpdateStock(tenantID, productID, quantity) ==
  /\ resp = Idle
  /\ adjustments < MaxAdjust
  /\ LET out == UpdateStockHandler(Store, tenantID, productID, quantity)
     IN /\ out.store.products[productID].stock_qty <= MaxStock
        /\ Persist(out)
        /\ resp' = Response("update_stock", out)
        /\ last' = IF out.code = 200
                   THEN LastWork("update_stock", 0, FALSE, NoSnapshot)
                   ELSE last
  /\ adjustments' = IF resp'.code = 200 THEN adjustments + 1 ELSE adjustments
  /\ UNCHANGED <<links, inflight>>

\* the response of a request on the recipes, and the unit of work when it
\* changed a row
LinkResponse(op, out) ==
  [op |-> op, code |-> out.code, error |-> "", tx |-> 0, done |-> 0, data |-> NoData]

LinkMaterial(input) ==
  /\ resp = Idle
  /\ LET out == LinkMaterialHandler(links, input)
     IN /\ links' = out.links
        /\ resp' = LinkResponse("link", out)
        /\ last' = IF out.code \in {200, 201}
                   THEN LastWork("link", 0, FALSE, NoSnapshot)
                   ELSE last
  /\ UNCHANGED <<products, materials, transactions, auditLogs, activityLogs,
                 adjustments, inflight>>

UnlinkMaterial(productID, materialID) ==
  /\ resp = Idle
  /\ LET out == UnlinkMaterialHandler(links, productID, materialID)
     IN /\ links' = out.links
        /\ resp' = LinkResponse("unlink", out)
        /\ last' = IF out.code = 200
                   THEN LastWork("unlink", 0, FALSE, NoSnapshot)
                   ELSE last
  /\ UNCHANGED <<products, materials, transactions, auditLogs, activityLogs,
                 adjustments, inflight>>

ToggleActive(session, productID, isActive, fault) ==
  /\ resp = Idle
  /\ Len(activityLogs) < MaxLogs
  /\ LET out == ToggleActiveHandler(Store, session, productID, isActive, fault)
     IN /\ Persist(out)
        /\ resp' = Response("toggle", out)
        /\ last' = IF out.code = 200
                   THEN LastWork("toggle", 0, FALSE, NoSnapshot)
                   ELSE last
  /\ UNCHANGED <<links, adjustments, inflight>>

Update(session, productID, req, fault) ==
  /\ resp = Idle
  /\ Len(activityLogs) < MaxLogs
  /\ LET out == UpdateHandler(Store, session, productID, req, fault)
     IN /\ Persist(out)
        /\ resp' = Response("update", out)
        /\ last' = IF out.code = 200
                   THEN LastWork("update", 0, FALSE, NoSnapshot)
                   ELSE last
  /\ UNCHANGED <<links, adjustments, inflight>>

Deliver ==
  /\ resp # Idle
  /\ resp' = Idle
  /\ UNCHANGED <<dbvars, last, adjustments, inflight>>

\* The catalog the requests start from: a manual-stock product and a
\* material-driven product of tenant T1 that share raw material M1, and a
\* product of tenant T2
InitialProducts ==
  [id \in ProductIDs |->
     CASE id = "P1" -> [tenant_id |-> "T1", price |-> 100, tax_rate |-> 0,
                        stock_qty |-> 2, use_material_stock |-> FALSE,
                        is_active |-> TRUE]
       [] id = "P2" -> [tenant_id |-> "T1", price |-> 250, tax_rate |-> 10,
                        stock_qty |-> 0, use_material_stock |-> TRUE,
                        is_active |-> TRUE]
       [] id = "P3" -> [tenant_id |-> "T2", price |-> 100, tax_rate |-> 0,
                        stock_qty |-> 1, use_material_stock |-> FALSE,
                        is_active |-> TRUE]]

InitialMaterials ==
  [id \in MaterialIDs |->
     CASE id = "M1" -> [tenant_id |-> "T1", stock_qty |-> 6]
       [] id = "M2" -> [tenant_id |-> "T1", stock_qty |-> 2]]

InitialLinks ==
  {[id |-> 1, product_id |-> "P1", material_id |-> "M1", quantity_used |-> 1, conversion_rate |-> 1],
   [id |-> 2, product_id |-> "P2", material_id |-> "M1", quantity_used |-> 2, conversion_rate |-> 1],
   [id |-> 3, product_id |-> "P2", material_id |-> "M2", quantity_used |-> 1, conversion_rate |-> 1]}

Init ==
  /\ products = InitialProducts
  /\ materials = InitialMaterials
  /\ links = InitialLinks
  /\ transactions = <<>>
  /\ auditLogs = <<>>
  /\ activityLogs = <<>>
  /\ resp = Idle
  /\ last = LastWork("none", 0, FALSE, NoSnapshot)
  /\ adjustments = 0
  /\ inflight = [r \in Reqs |-> NewRequest]

\* The clock of orders that all fall on one day, with a UnixNano that no
\* earlier order had
SameDayClock == Clock(1, 1, Len(transactions) + 1, 1)

Next ==
  \/ \E in \in CreateInputs : Create(in[1], in[2], in[3], SameDayClock)
  \/ \E req \in VoidInputs : Void(req)
  \/ \E in \in UpdateStockInputs : UpdateStock(in[1], in[2], in[3])
  \/ Deliver

Spec == Init /\ [][Next]_vars

\* Orders and voids between changes of the recipes
NextCatalog ==
  \/ \E in \in CatalogCreateInputs : Create(in[1], in[2], in[3], SameDayClock)
  \/ \E req \in CatalogVoidInputs : Void(req)
  \/ \E input \in LinkMaterialInputs : LinkMaterial(input)
  \/ \E in \in UnlinkMaterialInputs : UnlinkMaterial(in[1], in[2])
  \/ Deliver

SpecCatalog == Init /\ [][NextCatalog]_vars

\* Orders under every clock: requests early and late on a day, on the next
\* day, across midnight, and with UnixNano values whose last four digits
\* are equal
MaxDay == 2
Days == 1..MaxDay
Nanos == {1, 2, InvoiceModulus + 1}

ClockReadings ==
  {Clock(t, s, n, c) : t \in Days, s \in Days, n \in Nanos, c \in Days}

\* time.Now() does not go back, and midnight passes at most once in a request
Monotonic(now) ==
  /\ now.today <= now.stamp
  /\ now.stamp <= now.created_at
  /\ now.created_at <= now.today + 1
  /\ \A i \in DOMAIN transactions : transactions[i].created_at <= now.today

\* an order of tenant T1, an order of tenant T2, and an order of tenant T1
\* that is rejected at its second item
ClockCreateInputs ==
  {<<"T1", CreateRequest(<<Item("P1", 1)>>, 0, 0), NoFault>>,
   <<"T2", CreateRequest(<<Item("P3", 1)>>, 0, 0), NoFault>>,
   <<"T1", CreateRequest(<<Item("P1", 1), Item("P3", 1)>>, 0, 0), NoFault>>}

NextClock ==
  \/ \E in \in ClockCreateInputs, now \in ClockReadings :
       Monotonic(now) /\ Create(in[1], in[2], in[3], now)
  \/ \E req \in CatalogVoidInputs : Void(req)
  \/ Deliver

SpecClock == Init /\ [][NextClock]_vars

\* Orders, voids and switches of a product between active and inactive, by
\* the owner of T1 on P1 and on a product of another tenant
ToggleInputs ==
  {<<Session("u_owner"), "P1", a, f>> : a \in BOOLEAN, f \in ToggleFaults}
    \cup {<<Session("u_owner"), "P3", FALSE, NoFault>>}

NextActivity ==
  \/ \E in \in CatalogCreateInputs : Create(in[1], in[2], in[3], SameDayClock)
  \/ \E req \in CatalogVoidInputs : Void(req)
  \/ \E in \in ToggleInputs : ToggleActive(in[1], in[2], in[3], in[4])
  \/ Deliver

SpecActivity == Init /\ [][NextActivity]_vars

\* Orders whose raw material update is rejected by the store, at the first
\* item or at the second, next to orders and voids that go through
MaterialFaults == {[stmt |-> "material", idx |-> i] : i \in 1..2}

MaterialFaultInputs ==
  {<<"T1", CreateRequest(<<Item("P1", 1), Item("P2", 2)>>, 50, 7), f>> :
     f \in MaterialFaults \cup {NoFault}}
    \cup {<<"T1", CreateRequest(<<Item("P2", 1)>>, 0, 0), f>> :
            f \in MaterialFaults \cup {NoFault}}

NextMaterialFault ==
  \/ \E in \in MaterialFaultInputs : Create(in[1], in[2], in[3], SameDayClock)
  \/ \E req \in CatalogVoidInputs : Void(req)
  \/ Deliver

SpecMaterialFault == Init /\ [][NextMaterialFault]_vars

\* Orders and voids of P1 between changes of its price: a new price, the
\* old price again, a body without price, and a product of another tenant
PriceCreateInputs ==
  {<<"T1", CreateRequest(<<Item("P1", 1)>>, 0, 0), NoFault>>,
   <<"T1", CreateRequest(<<Item("P1", 1), Item("P2", 1)>>, 50, 7), NoFault>>}

UpdateInputs ==
  {<<Session("u_owner"), "P1", UpdateProductRequest(120, 2, FALSE), NoFault>>,
   <<Session("u_owner"), "P1", UpdateProductRequest(100, 2, FALSE), NoFault>>,
   <<Session("u_owner"), "P1", UpdateProductRequest(0, 2, FALSE), NoFault>>,
   <<Session("u_owner"), "P3", UpdateProductRequest(120, 2, FALSE), NoFault>>}

NextPrice ==
  \/ \E in \in PriceCreateInputs : Create(in[1], in[2], in[3], SameDayClock)
  \/ \E req \in CatalogVoidInputs : Void(req)
  \/ \E in \in UpdateInputs : Update(in[1], in[2], in[3], in[4])
  \/ Deliver

SpecPrice == Init /\ [][NextPrice]_vars

\* Two tenants: orders and voids of T1 on P1 and of T2 on P3, and recipe
\* links between the product of one tenant and a raw material of the other
TenantCreateInputs ==
  {<<"T1", CreateRequest(<<Item("P1", 1)>>, 0, 0), NoFault>>,
   <<"T2", CreateRequest(<<Item("P3", 1)>>, 0, 0), NoFault>>}

TenantVoidInputs ==
  {VoidRequest(Session(u), id, "salah input", fiveMinutes, NoFault) :
     u \in {"u_owner", "u_owner2"}, id \in 1..MaxTx}

TenantLinkInputs ==
  {LinkMaterialInput("P3", "M1", 1, 1), LinkMaterialInput("P3", "M2", 2, 1)}

TenantUnlinkInputs == {<<"P3", "M1">>}

NextTenants ==
  \/ \E in \in TenantCreateInputs : Create(in[1], in[2], in[3], SameDayClock)
  \/ \E req \in TenantVoidInputs : Void(req)
  \/ \E input \in TenantLinkInputs : LinkMaterial(input)
  \/ \E in \in TenantUnlinkInputs : UnlinkMaterial(in[1], in[2])
  \/ Deliver

SpecTenants == Init /\ [][NextTenants]_vars

----
\* Requests that run concurrently.  Every request is handled by a goroutine of
\* its own; a step is one statement of a handler against the store.  The
\* store is PostgreSQL at READ COMMITTED: a read sees the committed rows and
\* the request's own writes, an UPDATE waits while another open transaction
\* holds the row, and then works on the row as committed.

\* the readings of time.Now().UnixNano() of the concurrent orders
InvoiceSuffixes == 1..NumReq

\* Orders of tenant T1 on the same product (P1 and P2 share raw material M1)
ConcurrentCreateInputs ==
  {<<"T1", CreateRequest(<<Item("P1", 1)>>, 0, 0)>>,
   <<"T1", CreateRequest(<<Item("P1", 2)>>, 0, 0)>>,
   <<"T1", CreateRequest(<<Item("P2", 1)>>, 0, 0)>>}

\* Voids of the transaction that is there from the start
ConcurrentVoidInputs ==
  {VoidRequest(Session(u), 1, "salah input", fiveMinutes, NoFault) :
     u \in {"u_owner", "u_cashier"}}

\* the rows of Find(&productMaterials), in the order of their ids
RECURSIVE SortedLinks(_)
SortedLinks(pms) ==
  IF pms = {} THEN <<>>
  ELSE LET pm == CHOOSE x \in pms : \A y \in pms : x.id <= y.id
       IN <<pm>> \o SortedLinks(pms \ {pm})

\* stock_qty of a row as a statement of the request sees it
Visible(committed, writes, id) ==
  IF id \in DOMAIN writes THEN writes[id] ELSE committed[id].stock_qty

Write(writes, id, value) ==
  [x \in DOMAIN writes \cup {id} |-> IF x = id THEN value ELSE writes[x]]

\* tx.Commit() applied to the stock_qty column of a table
Apply(committed, writes) ==
  [id \in DOMAIN committed |->
     IF id \in DOMAIN writes
     THEN [committed[id] EXCEPT !.stock_qty = writes[id]]
     ELSE committed[id]]

ProductLocked(r, id) == \E o \in Reqs \ {r} : id \in DOMAIN inflight[o].wp
MaterialLocked(r, id) == \E o \in Reqs \ {r} : id \in DOMAIN inflight[o].wm
TransactionLocked(r, id) == \E o \in Reqs \ {r} : id \in inflight[o].wt

\* the handler returned: its response, and nothing left of its open
\* transaction (committed or rolled back)
Finished(q, id, code, error) ==
  [NewRequest EXCEPT !.op = q.op, !.pc = "done", !.tenant_id = q.tenant_id,
                     !.user_id = q.user_id, !.cart = q.cart, !.id = id,
                     !.code = code, !.error = error]

\* Create: ShouldBindJSON and tx.Begin()
BeginCreate(r, tenantID, req) ==
  /\ inflight[r].pc = "new"
  /\ LET q == [NewRequest EXCEPT !.op = "create", !.tenant_id = tenantID,
                                 !.cart = req.items, !.discount = req.discount,
                                 !.tax = BindTax(req),
                                 !.orderNumber = OrderNumber(transactions, tenantID, 1)]
     IN inflight' = [inflight EXCEPT ![r] =
                       IF BindCreate(req)
                       THEN [q EXCEPT !.pc = "select", !.i = 1]
                       ELSE Finished(q, 0, 400, "binding")]
  /\ UNCHANGED <<dbvars, resp, last, adjustments>>

\* Create: the SELECT of the item's product and the item's amounts
SelectProduct(r) ==
  LET q == inflight[r]
  IN /\ q.pc = "select"
     /\ LET item == q.cart[q.i]
            found == /\ item.product_id \in DOMAIN products
                     /\ products[item.product_id].tenant_id = q.tenant_id
            product == products[item.product_id]
            itemSubtotal == product.price * item.quantity
            itemTax == (itemSubtotal * product.tax_rate) \div 100
        IN inflight' = [inflight EXCEPT ![r] =
             IF ~found
             THEN Finished(q, 0, 400, "Product not found")
             ELSE [q EXCEPT !.totalTax = @ + itemTax,
                            !.items = Append(@, [product_id |-> item.product_id,
                                                 quantity |-> item.quantity,
                                                 unit_price |-> product.price,
                                                 subtotal |-> itemSubtotal]),
                            !.subtotal = @ + itemSubtotal,
                            !.pc = "product"]]
     /\ UNCHANGED <<dbvars, resp, last, adjustments>>

\* the statement after the last statement of an item of the cart
AfterItem(q) ==
  IF q.i < Len(q.cart)
  THEN [q EXCEPT !.i = @ + 1, !.pc = "select"]
  ELSE [q EXCEPT !.pc = "insert"]

\* Create: UPDATE products SET stock_qty = stock_qty - quantity, and the read
\* of the product's links
UpdateProductStock(r) ==
  LET q == inflight[r]
  IN /\ q.pc = "product"
     /\ LET item == q.cart[q.i]
            pms == SortedLinks(ProductMaterials(links, item.product_id))
            q1 == [q EXCEPT !.wp = Write(@, item.product_id,
                                         Visible(products, q.wp, item.product_id) - item.quantity),
                            !.pms = pms]
        IN /\ ~ProductLocked(r, item.product_id)
           /\ inflight' = [inflight EXCEPT ![r] =
                IF pms = <<>> THEN AfterItem(q1) ELSE [q1 EXCEPT !.pc = "material"]]
     /\ UNCHANGED <<dbvars, resp, last, adjustments>>

\* Create: UPDATE raw_materials SET stock_qty = stock_qty - deduction for the
\* next link of the item's product
UpdateMaterialStock(r) ==
  LET q == inflight[r]
  IN /\ q.pc = "material"
     /\ LET item == q.cart[q.i]
            pm == Head(q.pms)
            deduction == pm.quantity_used * item.quantity
            q1 == [q EXCEPT !.wm = Write(@, pm.material_id,
                                         Visible(materials, q.wm, pm.material_id) - deduction),
                            !.pms = Tail(@)]
        IN /\ ~MaterialLocked(r, pm.material_id)
           /\ inflight' = [inflight EXCEPT ![r] =
                IF q1.pms = <<>> THEN AfterItem(q1) ELSE q1]
     /\ UNCHANGED <<dbvars, resp, last, adjustments>>

\* Create: the totals, the invoice number, tx.Create(&transaction) and
\* tx.Commit(); invoice_number has a unique index, an insert with a number
\* that is taken fails and the handler rolls back
InsertTransaction(r, suffix) ==
  LET q == inflight[r]
  IN /\ q.pc = "insert"
     /\ LET finalTax == FinalTax(q.tax, q.totalTax)
            total == Total(q.subtotal, q.discount, finalTax)
            invoiceNumber == InvoiceNumber(Clock(1, 1, suffix, 1))
            transaction == [tenant_id |-> q.tenant_id,
                            invoice_number |-> invoiceNumber,
                            order_number |-> q.orderNumber,
                            created_at |-> 1,
                            items |-> q.items,
                            subtotal |-> q.subtotal,
                            discount |-> q.discount,
                            tax |-> finalTax,
                            total |-> total,
                            status |-> "completed"]
            taken == InvoiceNumberTaken(transactions, invoiceNumber)
        IN IF taken
           THEN /\ inflight' = [inflight EXCEPT ![r] =
                     Finished(q, 0, 500, "Failed to create transaction")]
                /\ UNCHANGED dbvars
           ELSE /\ products' = Apply(products, q.wp)
                /\ materials' = Apply(materials, q.wm)
                /\ transactions' = Append(transactions, transaction)
                /\ inflight' = [inflight EXCEPT ![r] =
                     Finished(q, Len(transactions) + 1, 201, "")]
                /\ UNCHANGED <<links, auditLogs, activityLogs>>
     /\ UNCHANGED <<resp, last, adjustments>>

\* Void: the reason, the user, the transaction with its items, the status
\* check and the role check, all read from the committed rows, and tx.Begin()
LoadTransaction(r, req) ==
  /\ inflight[r].pc = "new"
  /\ LET q == [NewRequest EXCEPT !.op = "void", !.tenant_id = req.session.tenant_id,
                                 !.user_id = req.session.user_id,
                                 !.reason = req.reason, !.id = req.id]
         checks == VoidHandler(Store, links, req)
     IN inflight' = [inflight EXCEPT ![r] =
                       IF checks.code # 200
                       THEN Finished(q, req.id, checks.code, checks.error)
                       ELSE [q EXCEPT !.loaded = <<transactions[req.id]>>,
                                      !.pc = "status"]]
  /\ UNCHANGED <<dbvars, resp, last, adjustments>>

\* Void: UPDATE transactions SET status = 'voided' WHERE id = ?
UpdateStatus(r) ==
  LET q == inflight[r]
  IN /\ q.pc = "status"
     /\ ~TransactionLocked(r, q.id)
     /\ inflight' = [inflight EXCEPT ![r] =
          [q EXCEPT !.wt = {q.id}, !.i = 1,
                    !.pc = IF q.loaded[1].items = <<>> THEN "audit" ELSE "restore"]]
     /\ UNCHANGED <<dbvars, resp, last, adjustments>>

\* the statement after the last statement of an item of the transaction
AfterVoidItem(q) ==
  IF q.i < Len(q.loaded[1].items)
  THEN [q EXCEPT !.i = @ + 1, !.pc = "restore"]
  ELSE [q EXCEPT !.pc = "audit"]

\* Void: UPDATE products SET stock_qty = stock_qty + quantity, and the read
\* of the product's links
RestoreProductStock(r) ==
  LET q == inflight[r]
  IN /\ q.pc = "restore"
     /\ LET item == q.loaded[1].items[q.i]
            pms == SortedLinks(ProductMaterials(links, item.product_id))
            q1 == [q EXCEPT !.wp = Write(@, item.product_id,
                                         Visible(products, q.wp, item.product_id) + item.quantity),
                            !.pms = pms]
        IN /\ ~ProductLocked(r, item.product_id)
           /\ inflight' = [inflight EXCEPT ![r] =
                IF pms = <<>> THEN AfterVoidItem(q1) ELSE [q1 EXCEPT !.pc = "restore_material"]]
     /\ UNCHANGED <<dbvars, resp, last, adjustments>>

\* Void: UPDATE raw_materials SET stock_qty = stock_qty + restoration for the
\* next link of the item's product
RestoreMaterialStock(r) ==
  LET q == inflight[r]
  IN /\ q.pc = "restore_material"
     /\ LET item == q.loaded[1].items[q.i]
            pm == Head(q.pms)
            restoration == pm.quantity_used * item.quantity
            q1 == [q EXCEPT !.wm = Write(@, pm.material_id,
                                         Visible(materials, q.wm, pm.material_id) + restoration),
                            !.pms = Tail(@)]
        IN /\ ~MaterialLocked(r, pm.material_id)
           /\ inflight' = [inflight EXCEPT ![r] =
                IF q1.pms = <<>> THEN AfterVoidItem(q1) ELSE q1]
     /\ UNCHANGED <<dbvars, resp, last, adjustments>>

\* Void: tx.Create(&auditLog) and tx.Commit()
InsertAuditLog(r) ==
  LET q == inflight[r]
  IN /\ q.pc = "audit"
     /\ LET transaction == q.loaded[1]
            oldValues == [status |-> transaction.status,
                          total |-> transaction.total,
                          subtotal |-> transaction.subtotal,
                          discount |-> transaction.discount,
                          tax |-> transaction.tax,
                          items |-> transaction.items]
            auditLog == [tenant_id |-> q.tenant_id,
                         transaction_id |-> q.id,
                         action |-> "void",
                         reason |-> q.reason,
                         old_values |-> oldValues,
                         new_values |-> [status |-> "voided"],
                         user_id |-> q.user_id]
        IN /\ products' = Apply(products, q.wp)
           /\ materials' = Apply(materials, q.wm)
           /\ transactions' = [id \in 1..Len(transactions) |->
                                 IF id \in q.wt
                                 THEN [transactions[id] EXCEPT !.status = "voided"]
                                 ELSE transactions[id]]
           /\ auditLogs' = Append(auditLogs, auditLog)
           /\ inflight' = [inflight EXCEPT ![r] = Finished(q, q.id, 200, "")]
     /\ UNCHANGED <<links, activityLogs, resp, last, adjustments>>

\* One completed order of one unit of P1 is there from the start, and P1 has
\* one unit in stock for each request
InitialTransactions ==
  <<[tenant_id |-> "T1", invoice_number |-> <<1, 0>>, order_number |-> 1,
     created_at |-> 1,
     items |-> <<[product_id |-> "P1", quantity |-> 1, unit_price |-> 100, subtotal |-> 100]>>,
     subtotal |-> 100, discount |-> 0, tax |-> 0, total |-> 100,
     status |-> "completed"]>>

InitConc ==
  /\ products = [InitialProducts EXCEPT !["P1"].stock_qty = NumReq]
  /\ materials = InitialMaterials
  /\ links = InitialLinks
  /\ transactions = InitialTransactions
  /\ auditLogs = <<>>
  /\ activityLogs = <<>>
  /\ resp = Idle
  /\ last = LastWork("none", 0, FALSE, NoSnapshot)
  /\ adjustments = 0
  /\ inflight = [r \in Reqs |-> NewRequest]

NextConc ==
  \/ \E r \in Reqs, in \in ConcurrentCreateInputs : BeginCreate(r, in[1], in[2])
  \/ \E r \in Reqs : SelectProduct(r)
  \/ \E r \in Reqs : UpdateProductStock(r)
  \/ \E r \in Reqs : UpdateMaterialStock(r)
  \/ \E r \in Reqs, suffix \in InvoiceSuffixes : InsertTransaction(r, suffix)
  \/ \E r \in Reqs, req \in ConcurrentVoidInputs : LoadTransaction(r, req)
  \/ \E r \in Reqs : UpdateStatus(r)
  \/ \E r \in Reqs : RestoreProductStock(r)
  \/ \E r \in Reqs : RestoreMaterialStock(r)
  \/ \E r \in Reqs : InsertAuditLog(r)

SpecConc == InitConc /\ [][NextConc]_vars

----
\* The manual stock writes, statement by statement: inventory.Handler.UpdateStock,
\* product.Handler.ToggleActive and material.Handler.UpdateStock read the row
\* with h.db outside any transaction, change the struct and write every
\* column of it back with h.db.Save

\* the request when its handler has answered, with the row and the quantity
\* it was about
Answered(q, code, error) ==
  [Finished(q, 0, code, error) EXCEPT !.row = q.row, !.quantity = q.quantity]

\* inventory UpdateStock: ShouldBindJSON, First(&product) and the check of newQty
LoadProductForStock(r, tenantID, productID, quantity) ==
  /\ inflight[r].pc = "new"
  /\ LET q == [NewRequest EXCEPT !.op = "update_stock", !.tenant_id = tenantID,
                                 !.row = productID, !.quantity = quantity]
         found == /\ productID \in DOMAIN products
                  /\ products[productID].tenant_id = tenantID
         product == products[productID]
         newQty == product.stock_qty + quantity
     IN inflight' = [inflight EXCEPT ![r] =
                       IF quantity = 0
                       THEN Answered(q, 400, "binding")
                       ELSE IF ~found
                       THEN Answered(q, 404, "Product not found")
                       ELSE IF newQty < 0
                       THEN Answered(q, 400, "Stock cannot go below zero")
                       ELSE [q EXCEPT !.pc = "saveProduct",
                                      !.loaded = <<[product EXCEPT !.stock_qty = newQty]>>]]
  /\ UNCHANGED <<dbvars, resp, last, adjustments>>

\* ToggleActive: ShouldBindJSON and First(&product)
LoadProductForToggle(r, session, productID, isActive) ==
  /\ inflight[r].pc = "new"
  /\ LET q == [NewRequest EXCEPT !.op = "toggle", !.tenant_id = session.tenant_id,
                                 !.user_id = session.user_id, !.row = productID]
         found == /\ productID \in DOMAIN products
                  /\ products[productID].tenant_id = session.tenant_id
         product == products[productID]
     IN inflight' = [inflight EXCEPT ![r] =
                       IF ~found
                       THEN Answered(q, 404, "Product not found")
                       ELSE [q EXCEPT !.pc = "saveProduct",
                                      !.loaded = <<[product EXCEPT !.is_active = isActive]>>]]
  /\ UNCHANGED <<dbvars, resp, last, adjustments>>

\* h.db.Save(&product): an UPDATE of every column of the row with the values of
\* the struct
SaveRow(prods, productID, product) ==
  [prods EXCEPT ![productID] = product]

\* the Save of UpdateStock and of ToggleActive; the UPDATE waits for a
\* transaction that holds the row
SaveProduct(r) ==
  LET q == inflight[r]
  IN /\ q.pc = "saveProduct"
     /\ ~ProductLocked(r, q.row)
     /\ products' = SaveRow(products, q.row, q.loaded[1])
     /\ inflight' = [inflight EXCEPT ![r] =
                       IF q.op = "toggle"
                       THEN [q EXCEPT !.pc = "logToggle"]
                       ELSE Answered(q, 200, "")]
     /\ UNCHANGED <<materials, links, transactions, auditLogs, activityLogs,
                    resp, last, adjustments>>

\* ToggleActive: h.logger.LogToggle and the answer
InsertToggleLog(r) ==
  LET q == inflight[r]
  IN /\ q.pc = "logToggle"
     /\ activityLogs' = LogToggle(activityLogs, Session(q.user_id), "product", q.row,
                                  q.loaded[1].is_active, NoFault).logs
     /\ inflight' = [inflight EXCEPT ![r] = Answered(q, 200, "")]
     /\ UNCHANGED <<products, materials, links, transactions, auditLogs,
                    resp, last, adjustments>>

\* material UpdateStock: ShouldBindJSON, First(&material), the adjustment and
\* the floor at zero
LoadMaterial(r, tenantID, materialID, adjustment) ==
  /\ inflight[r].pc = "new"
  /\ LET q == [NewRequest EXCEPT !.op = "update_material", !.tenant_id = tenantID,
                                 !.row = materialID, !.quantity = adjustment]
         found == /\ materialID \in DOMAIN materials
                  /\ materials[materialID].tenant_id = tenantID
         material == materials[materialID]
         adjusted == material.stock_qty + adjustment
     IN inflight' = [inflight EXCEPT ![r] =
                       IF adjustment = 0
                       THEN Answered(q, 400, "binding")
                       ELSE IF ~found
                       THEN Answered(q, 404, "Material not found")
                       ELSE [q EXCEPT !.pc = "saveMaterial",
                                      !.loaded = <<[material EXCEPT !.stock_qty =
                                                      IF adjusted < 0 THEN 0 ELSE adjusted]>>]]
  /\ UNCHANGED <<dbvars, resp, last, adjustments>>

\* material UpdateStock: h.db.Save(&material)
SaveMaterial(r) ==
  LET q == inflight[r]
  IN /\ q.pc = "saveMaterial"
     /\ ~MaterialLocked(r, q.row)
     /\ materials' = SaveRow(materials, q.row, q.loaded[1])
     /\ inflight' = [inflight EXCEPT ![r] = Answered(q, 200, "")]
     /\ UNCHANGED <<products, links, transactions, auditLogs, activityLogs,
                    resp, last, adjustments>>

\* Orders of one unit of the manual-stock product and of the material-driven
\* product
WriteCreateInputs ==
  {<<"T1", CreateRequest(<<Item("P1", 1)>>, 0, 0)>>,
   <<"T1", CreateRequest(<<Item("P2", 1)>>, 0, 0)>>}

\* PUT /inventory/:id/stock as (tenant, product, quantity): one unit up,
\* more units down than the stock, another tenant
WriteStockInputs ==
  {<<"T1", "P1", 1>>, <<"T1", "P1", 0 - (MaxStock + 1)>>, <<"T2", "P1", 1>>}

\* PATCH /products/:id/toggle as (user, product, is_active)
WriteToggleInputs == {<<"u_owner", "P1", FALSE>>, <<"u_owner2", "P1", FALSE>>}

\* PUT /materials/:id/stock as (tenant, material, adjustment)
WriteMaterialInputs == {<<"T1", "M1", 1>>, <<"T2", "M1", 1>>}

NextWrites ==
  \/ \E r \in Reqs, in \in WriteCreateInputs : BeginCreate(r, in[1], in[2])
  \/ \E r \in Reqs : SelectProduct(r)
  \/ \E r \in Reqs : UpdateProductStock(r)
  \/ \E r \in Reqs : UpdateMaterialStock(r)
  \/ \E r \in Reqs, suffix \in InvoiceSuffixes : InsertTransaction(r, suffix)
  \/ \E r \in Reqs, in \in WriteStockInputs :
       LoadProductForStock(r, in[1], in[2], in[3])
  \/ \E r \in Reqs, in \in WriteToggleInputs :
       LoadProductForToggle(r, Session(in[1]), in[2], in[3])
  \/ \E r \in Reqs : SaveProduct(r)
  \/ \E r \in Reqs : InsertToggleLog(r)
  \/ \E r \in Reqs, in \in WriteMaterialInputs :
       LoadMaterial(r, in[1], in[2], in[3])
  \/ \E r \in Reqs : SaveMaterial(r)

SpecWrites == InitConc /\ [][NextWrites]_vars

----
\* LinkMaterial and UnlinkMaterial, statement by statement: LinkMaterial runs
\* First(&existing) and then Save or Create with h.db, outside any transaction

\* the product_materials rows of a product and a material
LinksOf(lks, productID, materialID) ==
  {pm \in lks : pm.product_id = productID /\ pm.material_id = materialID}

\* LinkMaterial: ShouldBindJSON, conversionRate and First(&existing)
FindLink(r, input) ==
  /\ inflight[r].pc = "new"
  /\ LET q == [NewRequest EXCEPT !.op = "link", !.input = <<input>>]
         found == LinksOf(links, input.product_id, input.material_id)
     IN inflight' = [inflight EXCEPT ![r] =
                       IF input.product_id = "" \/ input.material_id = ""
                            \/ input.quantity_used = 0
                       THEN Answered(q, 400, "binding")
                       ELSE [q EXCEPT !.pc = "writeLink",
                                      !.found =
                                        IF found = {} THEN {}
                                        ELSE {CHOOSE x \in found :
                                                \A y \in found : x.id <= y.id}]]
  /\ UNCHANGED <<dbvars, resp, last, adjustments>>

\* the rows some request has read and not yet written: gen_random_uuid()
\* gives a new row none of their ids
RowsHeld == UNION {inflight[o].found : o \in Reqs}

\* LinkMaterial: h.db.Save(&existing), which inserts the row when its UPDATE
\* matches none, or h.db.Create(&link)
WriteLink(r) ==
  LET q == inflight[r]
      input == q.input[1]
      conversionRate == DefaultConversionRate(input.conversion_rate)
  IN /\ q.pc = "writeLink"
     /\ IF q.found # {}
        THEN LET existing == CHOOSE x \in q.found : TRUE
                 saved == [existing EXCEPT !.quantity_used = input.quantity_used,
                                           !.conversion_rate = conversionRate]
             IN /\ links' = {pm \in links : pm.id # existing.id} \cup {saved}
                /\ inflight' = [inflight EXCEPT ![r] = Answered(q, 200, "")]
        ELSE LET link == [id |-> NewLinkID(links \cup RowsHeld),
                          product_id |-> input.product_id,
                          material_id |-> input.material_id,
                          quantity_used |-> input.quantity_used,
                          conversion_rate |-> conversionRate]
             IN /\ links' = links \cup {link}
                /\ inflight' = [inflight EXCEPT ![r] = Answered(q, 201, "")]
     /\ UNCHANGED <<products, materials, transactions, auditLogs, activityLogs,
                    resp, last, adjustments>>

\* UnlinkMaterial: the DELETE and its RowsAffected
DeleteLinks(r, productID, materialID) ==
  /\ inflight[r].pc = "new"
  /\ LET q == [NewRequest EXCEPT !.op = "unlink"]
         out == UnlinkMaterialHandler(links, productID, materialID)
     IN /\ links' = out.links
        /\ inflight' = [inflight EXCEPT ![r] =
                          Answered(q, out.code,
                                   IF out.code = 404 THEN "Link not found" ELSE "")]
  /\ UNCHANGED <<products, materials, transactions, auditLogs, activityLogs,
                 resp, last, adjustments>>

\* Request bodies of POST /product-materials: a pair that has no link yet with
\* and without a conversion rate, a pair that is linked, a body without
\* quantity
ConcurrentLinkInputs ==
  {LinkMaterialInput("P1", "M2", 1, 2),
   LinkMaterialInput("P1", "M2", 2, 0),
   LinkMaterialInput("P2", "M1", 1, 2),
   LinkMaterialInput("P1", "M2", 0, 1)}

\* DELETE /product-materials/:product_id/:material_id
ConcurrentUnlinkInputs == {<<"P1", "M2">>, <<"P2", "M1">>}

\* a request that was answered leaves its slot to the next one
NextRequest(r) ==
  /\ inflight[r].pc = "done"
  /\ Cardinality(links) < MaxLinks
  /\ inflight' = [inflight EXCEPT ![r] = NewRequest]
  /\ UNCHANGED <<dbvars, resp, last, adjustments>>

NextLinks ==
  \/ \E r \in Reqs, input \in ConcurrentLinkInputs : FindLink(r, input)
  \/ \E r \in Reqs : WriteLink(r)
  \/ \E r \in Reqs, in \in ConcurrentUnlinkInputs : DeleteLinks(r, in[1], in[2])
  \/ \E r \in Reqs : NextRequest(r)

SpecLinks == InitConc /\ [][NextLinks]_vars

----
\* Stock availability: product.Handler.GetAvailableStock, and the
\* calculateMaterialStock of the product list and of the inventory list.
\* A float64 quotient is kept as the fraction n/d with d > 0.

MaxQuantityUsed == 2
MaxRate == 2

Fraction(n, d) == [n |-> n, d |-> d]

\* a < b on float64 quotients
Less(a, b) == a.n * b.d < b.n * a.d

\* int(math.Floor(x))
Floor(x) == x.n \div x.d

\* math.MaxFloat64: above every quotient of the rows
MaxFloat64 == Fraction(1000000, 1)

\* pm.Material.StockQty of Preload("Material")
MaterialStockQty(mats, pm) ==
  IF pm.material_id \in DOMAIN mats THEN mats[pm.material_id].stock_qty ELSE 0

\* product.Handler.GetAvailableStock: the loop over productMaterials
RECURSIVE GetAvailableStockLoop(_, _, _)
GetAvailableStockLoop(availableStock, pms, mats) ==
  IF pms = <<>> THEN availableStock
  ELSE LET pm == Head(pms)
       IN IF pm.quantity_used <= 0
          THEN GetAvailableStockLoop(availableStock, Tail(pms), mats)
          ELSE LET convRate == IF pm.conversion_rate <= 0 THEN 1 ELSE pm.conversion_rate
                   actualUsage == pm.quantity_used * convRate
                   canMake == Fraction(MaterialStockQty(mats, pm), actualUsage)
               IN GetAvailableStockLoop(
                    IF Less(canMake, availableStock) THEN canMake ELSE availableStock,
                    Tail(pms), mats)

\* product.Handler.GetAvailableStock: the status and data.available_stock
GetAvailableStockHandler(prods, mats, lks, tenantID, productID) ==
  IF productID \notin DOMAIN prods \/ prods[productID].tenant_id # tenantID
  THEN [code |-> 404, data |-> NoData]
  ELSE IF ~prods[productID].use_material_stock
  THEN [code |-> 200, data |-> {<<productID, prods[productID].stock_qty>>}]
  ELSE LET productMaterials == SortedLinks(ProductMaterials(lks, productID))
       IN IF Len(productMaterials) = 0
          THEN [code |-> 200, data |-> {<<productID, 0>>}]
          ELSE LET availableStock ==
                     GetAvailableStockLoop(MaxFloat64, productMaterials, mats)
                   finalStock == IF availableStock # MaxFloat64
                                 THEN Floor(availableStock) ELSE 0
               IN [code |-> 200, data |-> {<<productID, finalStock>>}]

\* product.Handler.calculateMaterialStock: the loop over productMaterials
RECURSIVE ProductCalculateLoop(_, _, _)
ProductCalculateLoop(availableStock, pms, mats) ==
  IF pms = <<>> THEN availableStock
  ELSE LET pm == Head(pms)
       IN IF pm.quantity_used <= 0
          THEN ProductCalculateLoop(availableStock, Tail(pms), mats)
          ELSE LET convRate == IF pm.conversion_rate <= 0 THEN 1 ELSE pm.conversion_rate
                   actualUsage == pm.quantity_used * convRate
                   canMake == Fraction(MaterialStockQty(mats, pm), actualUsage)
               IN ProductCalculateLoop(
                    IF Less(canMake, availableStock) THEN canMake ELSE availableStock,
                    Tail(pms), mats)

\* product.Handler.calculateMaterialStock
ProductCalculateMaterialStock(mats, lks, productID) ==
  LET productMaterials == SortedLinks(ProductMaterials(lks, productID))
  IN IF Len(productMaterials) = 0 THEN 0
     ELSE LET availableStock == ProductCalculateLoop(MaxFloat64, productMaterials, mats)
          IN IF availableStock = MaxFloat64 THEN 0 ELSE Floor(availableStock)

\* inventory.Handler.calculateMaterialStock: the loop over productMaterials
RECURSIVE InventoryCalculateLoop(_, _, _)
InventoryCalculateLoop(availableStock, pms, mats) ==
  IF pms = <<>> THEN availableStock
  ELSE LET pm == Head(pms)
       IN IF pm.quantity_used <= 0
          THEN InventoryCalculateLoop(availableStock, Tail(pms), mats)
          ELSE LET convRate == IF pm.conversion_rate <= 0 THEN 1 ELSE pm.conversion_rate
                   actualUsage == pm.quantity_used * convRate
                   canMake == Fraction(MaterialStockQty(mats, pm), actualUsage)
               IN InventoryCalculateLoop(
                    IF Less(canMake, availableStock) THEN canMake ELSE availableStock,
                    Tail(pms), mats)

\* the calculation on the recipe quantity alone, without the conversion rate
InventoryCalculateWithoutRate(mats, lks, productID) ==
  LET productMaterials ==
        SortedLinks({[pm EXCEPT !.conversion_rate = 1] : pm \in ProductMaterials(lks, productID)})
  IN IF Len(productMaterials) = 0 THEN 0
     ELSE LET availableStock == InventoryCalculateLoop(MaxFloat64, productMaterials, mats)
          IN IF availableStock = MaxFloat64 THEN 0 ELSE Floor(availableStock)

\* inventory.Handler.calculateMaterialStock
InventoryCalculateMaterialStock(mats, lks, productID) ==
  LET productMaterials == SortedLinks(ProductMaterials(lks, productID))
  IN IF Len(productMaterials) = 0 THEN 0
     ELSE LET availableStock == InventoryCalculateLoop(MaxFloat64, productMaterials, mats)
          IN IF availableStock = MaxFloat64 THEN 0 ELSE Floor(availableStock)

\* product.Handler.List: stock_qty of each product of the tenant in the body
ListHandler(prods, mats, lks, tenantID) ==
  {<<p, IF prods[p].use_material_stock
        THEN ProductCalculateMaterialStock(mats, lks, p)
        ELSE prods[p].stock_qty>> :
     p \in {x \in DOMAIN prods : prods[x].tenant_id = tenantID}}

\* inventory.Handler.GetInventory, filter all: stock_qty of each active
\* product of the tenant in the body
GetInventoryHandler(prods, mats, lks, tenantID) ==
  {<<p, IF prods[p].use_material_stock
        THEN InventoryCalculateMaterialStock(mats, lks, p)
        ELSE prods[p].stock_qty>> :
     p \in {x \in DOMAIN prods : prods[x].tenant_id = tenantID /\ prods[x].is_active}}

QueryResponse(op, code, data) ==
  [op |-> op, code |-> code, error |-> "", tx |-> 0, done |-> 0, data |-> data]

GetAvailableStock(tenantID, productID) ==
  /\ resp = Idle
  /\ LET out == GetAvailableStockHandler(products, materials, links, tenantID, productID)
     IN resp' = QueryResponse("available_stock", out.code, out.data)
  /\ UNCHANGED <<dbvars, last, adjustments, inflight>>

List(tenantID) ==
  /\ resp = Idle
  /\ resp' = QueryResponse("list", 200, ListHandler(products, materials, links, tenantID))
  /\ UNCHANGED <<dbvars, last, adjustments, inflight>>

GetInventory(tenantID) ==
  /\ resp = Idle
  /\ resp' = QueryResponse("inventory", 200,
                           GetInventoryHandler(products, materials, links, tenantID))
  /\ UNCHANGED <<dbvars, last, adjustments, inflight>>

\* The recipes and stock levels the calculators are asked about: product P2
\* with no link, one link or two, recipe quantities and conversion rates on
\* both sides of 0, raw material stock that divides evenly and that does not
RecipeQuantities == (-1)..MaxQuantityUsed
ConversionRates == 0..MaxRate
MaterialStocks == {-1, 0, 5, 6}

RecipeLinks(id, materialID) ==
  {[id |-> id, product_id |-> "P2", material_id |-> materialID,
    quantity_used |-> q, conversion_rate |-> c] :
     q \in RecipeQuantities, c \in ConversionRates}

Recipes ==
  {{}} \cup {{a} : a \in RecipeLinks(2, "M1")}
       \cup {{a, b} : a \in RecipeLinks(2, "M1"), b \in RecipeLinks(3, "M2")}

InitStock ==
  /\ products = InitialProducts
  /\ \E s \in MaterialStocks :
       materials = [InitialMaterials EXCEPT !["M1"].stock_qty = s]
  /\ \E recipe \in Recipes :
       links = {pm \in InitialLinks : pm.product_id # "P2"} \cup recipe
  /\ transactions = <<>>
  /\ auditLogs = <<>>
  /\ activityLogs = <<>>
  /\ resp = Idle
  /\ last = LastWork("none", 0, FALSE, NoSnapshot)
  /\ adjustments = 0
  /\ inflight = [r \in Reqs |-> NewRequest]

NextStock ==
  \/ \E t \in Tenants, p \in ProductIDs : GetAvailableStock(t, p)
  \/ \E t \in Tenants : List(t)
  \/ \E t \in Tenants : GetInventory(t)
  \/ Deliver

SpecStock == InitStock /\ [][NextStock]_vars

----
\* Properties

stockvars == <<products, materials, transactions, auditLogs>>

RECURSIVE SumSubtotals(_)
SumSubtotals(items) ==
  IF items = <<>> THEN 0 ELSE Head(items).subtotal + SumSubtotals(Tail(items))

\* C1: a void that commits directly after the creation of the same
\* transaction leaves every product's and every raw material's stock_qty at
\* the value it had before the order.
RoundTripRestoresStock ==
  (last.op = "void" /\ last.roundTrip) => Snapshot(Store) = last.before

RoundTripOfTwoItems ==
  /\ last.op = "void" /\ last.roundTrip
  /\ Len(transactions[last.tx].items) = 2

\* C2: the transaction a Create commits has subtotal = sum of its items'
\* subtotals, each item's subtotal = the product's price at checkout times the
\* quantity, and total = subtotal - discount + tax.
OrderTotals ==
  [][Len(transactions') > Len(transactions) =>
       LET t == transactions'[Len(transactions')]
       IN /\ \A i \in 1..Len(t.items) :
               /\ t.items[i].unit_price = products[t.items[i].product_id].price
               /\ t.items[i].subtotal = t.items[i].unit_price * t.items[i].quantity
          /\ t.subtotal = SumSubtotals(t.items)
          /\ t.total = t.subtotal - t.discount + t.tax]_vars

OrderWithDiscountAndTax ==
  \E id \in 1..Len(transactions) :
    /\ Len(transactions[id].items) = 2
    /\ transactions[id].discount > 0
    /\ transactions[id].tax > 0

\* C3: a Void that loads a transaction whose status is already voided answers
\* with the conflict error and changes no stock, no transaction and no audit
\* row.
VoidOfVoidedIsConflict ==
  [][(/\ resp'.op = "void" /\ resp'.tx # 0
      /\ transactions[resp'.tx].status = "voided")
       => /\ resp'.code = 400
          /\ resp'.error = "Transaksi sudah dibatalkan"
          /\ UNCHANGED stockvars]_vars

SecondVoidRejected ==
  resp.op = "void" /\ resp.error = "Transaksi sudah dibatalkan"

\* C5: a Void of a completed transaction by a user of its tenant succeeds if
\* and only if the user is owner, or manager with elapsed <= 24 hours, or
\* cashier with elapsed <= 5 minutes; otherwise the answer is 403.
VoidAllowed(role, elapsed) ==
  \/ role = "owner"
  \/ role = "manager" /\ elapsed <= 24 * 3600
  \/ role = "cashier" /\ elapsed <= 5 * 60

ElapsedAll == {0, 299, 300, 301, 86399, 86400, 86401, 864000}

VoidAuthorization ==
  resp = Idle =>
    \A u \in DOMAIN Users, id \in 1..Len(transactions), e \in ElapsedAll :
      (/\ transactions[id].status = "completed"
       /\ Users[u].tenant_id = transactions[id].tenant_id)
        => LET out == VoidHandler(Store, links,
                                  VoidRequest(Session(u), id, "salah input", e, NoFault))
           IN /\ (out.code = 200) <=> VoidAllowed(Users[u].role, e)
              /\ ~VoidAllowed(Users[u].role, e) => out.code = 403

CashierDeniedAfterWindow ==
  /\ resp.op = "void" /\ resp.code = 403
  /\ resp.error = "Kasir hanya dapat membatalkan transaksi dalam 5 menit pertama. Hubungi manager."

\* C6: a Create with an empty cart or an item quantity < 1, and a Void with a
\* missing reason, an unknown or other-tenant transaction id or a role/time
\* denial, change nothing in the store.
MalformedCreate(req) ==
  \/ req.items = <<>>
  \/ \E i \in 1..Len(req.items) : req.items[i].quantity < 1

RejectedRequestsChangeNothing ==
  /\ \A in \in CreateInputs :
       (in[3] = NoFault /\ MalformedCreate(in[2]))
         => CreateHandler(Store, links, in[1], in[2], in[3], SameDayClock).store = Store
  /\ \A req \in VoidInputs :
       LET out == VoidHandler(Store, links, req)
       IN out.code \in {400, 403, 404} => out.store = Store

\* C7: a Create that fails after it started on the items (product absent or of
\* another tenant, stock update failed, insert failed) leaves no stock change
\* and no transaction behind.
CreateIsAtomic ==
  [][(/\ resp'.op = "create"
      /\ resp'.error \in {"Product not found", "Failed to update stock",
                          "Failed to create transaction"})
       => UNCHANGED stockvars]_vars

CreateFailedAfterFirstItem ==
  /\ resp.op = "create" /\ resp.error = "Product not found"
  /\ resp.done = 1

\* C8: a Void whose status update, stock restoration or audit insert fails
\* leaves the transaction completed, no stock restored and no audit row.
VoidIsAtomic ==
  [][(/\ resp'.op = "void" /\ resp'.code = 500)
       => /\ UNCHANGED stockvars
          /\ transactions'[resp'.tx].status = "completed"]_vars

VoidFailedAfterFirstItem ==
  /\ resp.op = "void" /\ resp.code = 500
  /\ resp.done >= 1

\* C9: the stock_qty of every manual-stock product is >= 0.
ManualStockNonNegative ==
  \A id \in DOMAIN products :
    ~products[id].use_material_stock => products[id].stock_qty >= 0

\* units of a product in a list of transaction items
RECURSIVE UnitsOf(_, _)
UnitsOf(items, productID) ==
  IF items = <<>> THEN 0
  ELSE (IF Head(items).product_id = productID THEN Head(items).quantity ELSE 0)
         + UnitsOf(Tail(items), productID)

RECURSIVE SumOver(_, _)
SumOver(f, S) ==
  IF S = {} THEN 0
  ELSE LET x == CHOOSE y \in S : TRUE IN f[x] + SumOver(f, S \ {x})

\* units of a product in the transactions that are completed
CompletedUnits(productID) ==
  SumOver([id \in 1..Len(transactions) |-> UnitsOf(transactions[id].items, productID)],
          {id \in 1..Len(transactions) : transactions[id].status = "completed"})

\* units of a product in the orders that committed while the requests ran
OrderedUnits(productID) ==
  SumOver([id \in 1..Len(transactions) |-> UnitsOf(transactions[id].items, productID)],
          (Len(InitialTransactions) + 1)..Len(transactions))

\* units of a product that the committed voids gave back
VoidedUnits(productID) ==
  SumOver([k \in 1..Len(auditLogs) |->
             UnitsOf(transactions[auditLogs[k].transaction_id].items, productID)],
          1..Len(auditLogs))

\* what the units of all products amount to in a raw material
MaterialAmount(units, materialID) ==
  SumOver([pm \in links |-> IF pm.material_id = materialID
                            THEN pm.quantity_used * units[pm.product_id] ELSE 0],
          links)

\* C4: of two concurrent Voids of the same completed transaction at most one
\* succeeds, the transaction has at most one void audit row, and the stock of
\* the items' products and linked materials is restored once: it is the
\* stock before the order minus the units of the transactions still completed.
VoidTransitionsOnce ==
  /\ \A id \in 1..Len(transactions) :
       /\ Cardinality({r \in Reqs : /\ inflight[r].op = "void" /\ inflight[r].id = id
                                    /\ inflight[r].code = 200}) <= 1
       /\ Cardinality({k \in 1..Len(auditLogs) : auditLogs[k].transaction_id = id}) <= 1
  /\ (\A r \in Reqs : inflight[r].pc = "done" /\ inflight[r].op = "void")
       => /\ products["P1"].stock_qty = NumReq + 1 - CompletedUnits("P1")
          /\ materials["M1"].stock_qty =
               InitialMaterials["M1"].stock_qty + 1
                 - MaterialAmount([p \in ProductIDs |-> CompletedUnits(p)], "M1")

\* No stock update of the concurrent requests is lost: each product's and
\* each raw material's committed stock_qty is its initial value minus the
\* units of the committed orders plus the units of the committed voids.
StockMatchesCommittedWork ==
  /\ \A p \in ProductIDs :
       products[p].stock_qty =
         (IF p = "P1" THEN NumReq ELSE InitialProducts[p].stock_qty)
           - OrderedUnits(p) + VoidedUnits(p)
  /\ \A m \in MaterialIDs :
       materials[m].stock_qty =
         InitialMaterials[m].stock_qty
           - MaterialAmount([p \in ProductIDs |-> OrderedUnits(p)], m)
           + MaterialAmount([p \in ProductIDs |-> VoidedUnits(p)], m)

\* C10: concurrent Creates lose no stock update, and when product P1 has
\* NumReq units and the NumReq requests are orders of one unit of P1, every
\* order is a successful sale and the final stock is 0.
ConcurrentOrdersAllSell ==
  /\ StockMatchesCommittedWork
  /\ (\A r \in Reqs : /\ inflight[r].pc = "done" /\ inflight[r].op = "create"
                      /\ inflight[r].cart = <<Item("P1", 1)>>)
       => /\ \A r \in Reqs : inflight[r].code = 201
          /\ products["P1"].stock_qty = 0

\* what an item list takes from a raw material when every link counts for
\* quantity_used x conversion_rate x quantity, a stored rate <= 0 counting as 1
ConvertedUsage(items, lks, materialID) ==
  SumOver([i \in 1..Len(items) |->
             SumOver([pm \in lks |->
                        IF /\ pm.product_id = items[i].product_id
                           /\ pm.material_id = materialID
                        THEN pm.quantity_used
                               * (IF pm.conversion_rate <= 0 THEN 1 ELSE pm.conversion_rate)
                               * items[i].quantity
                        ELSE 0],
                     lks)],
          1..Len(items))

\* C11: a successful order lowers the stock_qty of every raw material by
\* quantity_used x conversion_rate x quantity over the links of its items'
\* products, and a successful void raises it by the same amount.
StockMovesByConvertedUsage ==
  [][/\ (resp'.op = "create" /\ resp'.code = 201)
          => \A m \in MaterialIDs :
               materials'[m].stock_qty =
                 materials[m].stock_qty
                   - ConvertedUsage(transactions'[resp'.tx].items, links, m)
     /\ (resp'.op = "void" /\ resp'.code = 200)
          => \A m \in MaterialIDs :
               materials'[m].stock_qty =
                 materials[m].stock_qty
                   + ConvertedUsage(transactions[resp'.tx].items, links, m)]_vars

\* The stock figure the availability rule gives a material-driven product:
\* the floor of the least material.stock_qty / (quantity_used x conversion_rate)
\* over the links with quantity_used > 0, the rate taken as 1 when it is not
\* above 0, and 0 when no link qualifies.
AvailableStock(mats, lks, productID) ==
  LET qualifying == {pm \in ProductMaterials(lks, productID) : pm.quantity_used > 0}
      quotient(pm) ==
        Fraction(MaterialStockQty(mats, pm),
                 pm.quantity_used * (IF pm.conversion_rate <= 0 THEN 1 ELSE pm.conversion_rate))
      quotients == {quotient(pm) : pm \in qualifying}
  IN IF qualifying = {} THEN 0
     ELSE Floor(CHOOSE f \in quotients : \A g \in quotients : ~Less(g, f))

\* the figure product p has under the rule in the current state
Available(p) ==
  IF products[p].use_material_stock
  THEN AvailableStock(materials, links, p)
  ELSE products[p].stock_qty

\* C13: for every material-driven product and every state of its links and
\* materials, GetAvailableStock, the calculateMaterialStock of the product
\* list and the calculateMaterialStock of the inventory list return the same
\* value, the floor of the least stock_qty / (quantity_used x conversion_rate)
\* over the links with quantity_used > 0 (rate 1 when <= 0), 0 when no link
\* qualifies; for a manual-stock product GetAvailableStock returns stock_qty.
CalculatorsAgree ==
  /\ \A p \in DOMAIN products :
       /\ GetAvailableStockHandler(products, materials, links, products[p].tenant_id, p).data
            = {<<p, Available(p)>>}
       /\ products[p].use_material_stock =>
            /\ ProductCalculateMaterialStock(materials, links, p) = Available(p)
            /\ InventoryCalculateMaterialStock(materials, links, p) = Available(p)
  /\ resp.op \in {"available_stock", "list", "inventory"} =>
       \A d \in resp.data : d[2] = Available(d[1])

\* the inventory list of tenant T1 was served while P2 had two qualifying
\* links, one with a stored rate of 0 and one with rate 2, and showed 1 unit
\* (M1: 5 / (2 x 2), M2: 2 / (1 x 1))
InventoryOfRecipeWithRates ==
  /\ resp.op = "inventory"
  /\ <<"P2", 1>> \in resp.data
  /\ materials["M1"].stock_qty = 5
  /\ \E a, b \in ProductMaterials(links, "P2") :
       /\ a.material_id = "M1" /\ a.quantity_used = 2 /\ a.conversion_rate = 2
       /\ b.material_id = "M2" /\ b.quantity_used = 1 /\ b.conversion_rate = 0

\* product p has a single link, and that link qualifies
SingleQualifyingLink(p) ==
  /\ Cardinality(ProductMaterials(links, p)) = 1
  /\ \A pm \in ProductMaterials(links, p) : pm.quantity_used > 0

\* the stock of the linked material is an exact multiple of
\* quantity_used x conversion_rate
StockIsExactMultiple(p) ==
  \A pm \in ProductMaterials(links, p) :
    MaterialStockQty(materials, pm)
      % (pm.quantity_used * DefaultConversionRate(pm.conversion_rate)) = 0

\* C12: for a material-driven product with a single qualifying link, any
\* conversion_rate, and a material stock_qty that is an exact multiple of
\* quantity_used x conversion_rate, a successful order of q units of it
\* (q <= available stock) lowers its available stock by exactly q.
OrderLowersAvailableStock ==
  [][(resp'.op = "create" /\ resp'.code = 201) =>
       \A p \in DOMAIN products :
         LET items == transactions'[resp'.tx].items
             q == UnitsOf(items, p)
         IN (/\ products[p].use_material_stock
             /\ SingleQualifyingLink(p)
             /\ StockIsExactMultiple(p)
             /\ \A i \in DOMAIN items : items[i].product_id = p
             /\ q <= Available(p))
            => Available(p)' = Available(p) - q]_vars

\* C14: no two committed transactions of the same tenant created on the
\* same calendar day have the same order_number, for any interleaving of
\* concurrent Create requests of that tenant.
OrderNumbersDistinct ==
  \A i, j \in DOMAIN transactions :
    (/\ i # j
     /\ transactions[i].tenant_id = transactions[j].tenant_id
     /\ transactions[i].created_at = transactions[j].created_at)
      => transactions[i].order_number # transactions[j].order_number

\* the order numbers of the tenant's rows of a day, in creation order
RECURSIVE DayNumbers(_, _, _)
DayNumbers(txs, tenantID, day) ==
  IF txs = <<>> THEN <<>>
  ELSE LET t == Head(txs)
       IN (IF t.tenant_id = tenantID /\ t.created_at = day
           THEN <<t.order_number>> ELSE <<>>) \o DayNumbers(Tail(txs), tenantID, day)

\* 1..n in creation order
Counted(numbers) == \A i \in DOMAIN numbers : numbers[i] = i

InvoiceNumbersDistinct ==
  \A i, j \in DOMAIN transactions :
    i # j => transactions[i].invoice_number # transactions[j].invoice_number

\* C16: in every reachable state no two persisted transactions, of any
\* tenants, have the same invoice_number; a Create whose generated invoice
\* number equals that of an existing transaction does not commit, and the
\* stock decrements it had applied are rolled back.
InvoiceNumbersUnique ==
  /\ []InvoiceNumbersDistinct
  /\ [][\A in \in ClockCreateInputs, now \in ClockReadings :
          (/\ Create(in[1], in[2], in[3], now)
           /\ InvoiceNumberTaken(transactions, InvoiceNumber(now)))
            => /\ resp'.code # 201
               /\ transactions' = transactions
               /\ products' = products
               /\ materials' = materials]_vars

\* an order whose stock statements had run was refused for its invoice number
OrderRefusedForInvoiceNumber ==
  /\ resp.op = "create" /\ resp.code = 500 /\ resp.done >= 1
  /\ Len(transactions) >= 1

\* the accumulated per-item tax: the sum of price x quantity x tax_rate / 100
RECURSIVE ItemsTax(_)
ItemsTax(items) ==
  IF items = <<>> THEN 0
  ELSE (Head(items).unit_price * Head(items).quantity
          * products[Head(items).product_id].tax_rate) \div 100
       + ItemsTax(Tail(items))

\* C17: the persisted tax of an order equals the request's tax override
\* whenever an override is provided, including an override of 0 for a cart
\* whose products carry a non-zero tax_rate; only when no override is
\* provided does it equal the accumulated per-item tax.
TaxOverrideIsPersisted ==
  [][\A in \in CreateInputs :
       (Create(in[1], in[2], in[3], SameDayClock) /\ resp'.code = 201) =>
         LET t == transactions'[resp'.tx]
         IN t.tax = IF in[2].tax_given THEN in[2].tax ELSE ItemsTax(t.items)]_vars

\* the void audit rows of transaction id
VoidAuditRows(id) ==
  {i \in DOMAIN auditLogs : auditLogs[i].transaction_id = id /\ auditLogs[i].action = "void"}

VoidedIffAudited ==
  \A id \in DOMAIN transactions :
    transactions[id].status = "voided" <=> VoidAuditRows(id) # {}

\* C18: a successful Void sets the transaction's status to voided, adds each
\* item's quantity back to its product's stock_qty, and writes exactly one
\* TransactionAuditLog row for that transaction with action void, the
\* request's reason and acting user, old_values recording the pre-void
\* status completed and totals, and new_values recording status voided; in
\* every reachable state a transaction is voided if and only if a void audit
\* row exists for it.
VoidEffects ==
  /\ []VoidedIffAudited
  /\ [][\A req \in VoidInputs :
          (Void(req) /\ resp'.code = 200) =>
            LET t == transactions[req.id]
                row == auditLogs'[Len(auditLogs')]
            IN /\ transactions' = [transactions EXCEPT ![req.id].status = "voided"]
               /\ \A p \in DOMAIN products :
                    products'[p] = [products[p] EXCEPT
                                      !.stock_qty = @ + UnitsOf(t.items, p)]
               /\ auditLogs' = Append(auditLogs, row)
               /\ row.tenant_id = t.tenant_id
               /\ row.transaction_id = req.id
               /\ row.action = "void"
               /\ row.reason = req.reason
               /\ row.user_id = req.session.user_id
               /\ row.old_values.status = "completed"
               /\ row.old_values.total = t.total
               /\ row.old_values.subtotal = t.subtotal
               /\ row.old_values.discount = t.discount
               /\ row.old_values.tax = t.tax
               /\ row.new_values = [status |-> "voided"]]_vars

\* the void of an order of two products has been committed with its audit row
VoidOfTwoItemsAudited ==
  /\ resp.op = "void" /\ resp.code = 200
  /\ Len(transactions[resp.tx].items) = 2
  /\ transactions[resp.tx].status = "voided"
  /\ Cardinality(VoidAuditRows(resp.tx)) = 1

\* C19: voided is terminal: once a transaction's status is voided, no
\* sequence of Create, Void or catalog operations changes its status again,
\* and the only status change any operation performs on a transaction is
\* completed -> voided.
VoidedIsTerminal ==
  [][\A id \in DOMAIN transactions :
       /\ id \in DOMAIN transactions'
       /\ transactions[id].status = "voided" => transactions'[id].status = "voided"
       /\ transactions'[id].status # transactions[id].status =>
            /\ transactions[id].status = "completed"
            /\ transactions'[id].status = "voided"]_vars

\* after a void and a later change of the recipes, another void of the
\* same transaction was refused and left it voided
VoidRefusedAfterRecipeChange ==
  /\ resp.op = "void" /\ resp.code = 400
  /\ last.op \in {"link", "unlink"}
  /\ transactions[resp.tx].status = "voided"

\* rows is old with zero or more rows added at the end
Extends(rows, old) ==
  /\ Len(rows) >= Len(old)
  /\ \A i \in DOMAIN old : rows[i] = old[i]

\* C20: the audit trail is append-only: no operation modifies or deletes an
\* existing TransactionAuditLog or ActivityLog row, each committed logged
\* action adds exactly one row, and so the set of audit rows only grows.
AuditTrailAppendOnly ==
  [][/\ Extends(auditLogs', auditLogs)
     /\ Extends(activityLogs', activityLogs)
     /\ (resp'.op = "void" /\ resp'.code = 200) =>
          Len(auditLogs') = Len(auditLogs) + 1
     /\ (resp'.op = "toggle" /\ resp'.code = 200) =>
          Len(activityLogs') = Len(activityLogs) + 1]_vars

\* C21: a successful order decrements product.stock_qty by the item's
\* quantity for every item of the cart, also when the product has
\* use_material_stock = true.
OrderReducesProductStock ==
  [][(resp'.op = "create" /\ resp'.code = 201) =>
       LET items == transactions'[resp'.tx].items
       IN \A p \in DOMAIN products :
            products'[p].stock_qty = products[p].stock_qty - UnitsOf(items, p)]_vars

\* an order of a material-driven product went through and took its
\* stock_qty, never stocked by hand, below zero
MaterialDrivenProductReduced ==
  /\ resp.op = "create" /\ resp.code = 201
  /\ \E i \in DOMAIN transactions[resp.tx].items :
       transactions[resp.tx].items[i].product_id = "P2"
  /\ products["P2"].use_material_stock
  /\ products["P2"].stock_qty < 0

\* C22: if the deduction of a linked raw material fails inside Create, the
\* order is rolled back as a whole: no transaction or item is persisted and
\* the product stock decrement already applied for that item is undone.
MaterialFailureRollsBack ==
  [][\A in \in MaterialFaultInputs :
       (/\ Create(in[1], in[2], in[3], SameDayClock)
        /\ in[3].stmt = "material"
        /\ in[3].idx <= Len(in[2].items)
        /\ ProductMaterials(links, in[2].items[in[3].idx].product_id) # {})
         => /\ resp'.code # 201
            /\ transactions' = transactions
            /\ products' = products
            /\ materials' = materials]_vars

\* an order was refused after the stock statements of both its items had run
OrderRefusedAfterMaterialFailure ==
  /\ resp.op = "create" /\ resp.code = 500 /\ resp.done = 2
  /\ resp.error = "Failed to create transaction"

\* the amount Create deducts from a material for a cart
Requirement(items, lks, materialID) ==
  SumOver([pm \in {x \in lks : x.material_id = materialID} |->
             pm.quantity_used * UnitsOf(items, pm.product_id)],
          {x \in lks : x.material_id = materialID})

\* C23: Create performs no sufficiency check on raw materials and never
\* floors material stock at zero: an order whose requirement for a linked
\* material exceeds that material's stock_qty still succeeds and leaves the
\* material's stock_qty negative by exactly the shortfall.
MaterialStockGoesNegative ==
  [][\A in \in CreateInputs :
       (/\ Create(in[1], in[2], in[3], SameDayClock)
        /\ in[3] = NoFault
        /\ BindCreate(in[2])
        /\ \A i \in DOMAIN in[2].items :
             /\ in[2].items[i].product_id \in DOMAIN products
             /\ products[in[2].items[i].product_id].tenant_id = in[1])
         => /\ resp'.code = 201
            /\ \A m \in DOMAIN materials :
                 materials'[m].stock_qty
                   = materials[m].stock_qty - Requirement(in[2].items, links, m)]_vars

\* an order that needed more of M2 than was on hand went through and left
\* M2 below zero
OrderBeyondMaterialStock ==
  /\ resp.op = "create" /\ resp.code = 201
  /\ materials["M2"].stock_qty < 0

\* C29: the available stock computed for a material-driven product is >= 0
\* in every reachable state, including states reached by orders that
\* required more of a material than was on hand.
AvailableStockNonNegative ==
  \A p \in DOMAIN products :
    products[p].use_material_stock =>
      /\ ProductCalculateMaterialStock(materials, links, p) >= 0
      /\ InventoryCalculateMaterialStock(materials, links, p) >= 0

\* C24: Void changes only the status of the transaction among the
\* transaction's own data: its items, subtotal, discount, tax, total,
\* invoice_number and order_number are the same after the void as before
\* it, and no operation changes a TransactionItem row after checkout, not
\* even a later change of the product's price.
TransactionDataIsKept ==
  [][\A id \in DOMAIN transactions :
       /\ id \in DOMAIN transactions'
       /\ transactions'[id] =
            [transactions[id] EXCEPT !.status = transactions'[id].status]]_vars

\* an order of P1 was voided after the price of P1 had been changed, and
\* its item still carries the price it was sold at
VoidedAfterPriceChange ==
  /\ resp.op = "void" /\ resp.code = 200
  /\ transactions[resp.tx].status = "voided"
  /\ \E i \in DOMAIN transactions[resp.tx].items :
       LET item == transactions[resp.tx].items[i]
       IN /\ item.product_id = "P1"
          /\ item.unit_price # products["P1"].price
          /\ item.subtotal = item.unit_price * item.quantity

VoidRestoresWhatOrderDeducted ==
  (/\ resp.op = "void" /\ resp.code = 200
   /\ \A id \in DOMAIN transactions : transactions[id].status = "voided")
    => \A m \in MaterialIDs :
         materials[m].stock_qty = InitialMaterials[m].stock_qty

\* the stock of the products and raw materials of the tenants other than
\* tenantID is left as it is
OtherTenantsUntouched(tenantID) ==
  /\ \A p \in DOMAIN products :
       products[p].tenant_id # tenantID => products'[p] = products[p]
  /\ \A m \in DOMAIN materials :
       materials[m].tenant_id # tenantID => materials'[m] = materials[m]

\* C27: tenant isolation of stock effects: an order or a void performed for
\* tenant T changes the stock_qty only of products and raw materials that
\* belong to T, whatever recipe links exist.
TenantIsolation ==
  [][/\ \A in \in TenantCreateInputs :
          Create(in[1], in[2], in[3], SameDayClock) => OtherTenantsUntouched(in[1])
     /\ \A req \in TenantVoidInputs :
          Void(req) => OtherTenantsUntouched(req.session.tenant_id)]_vars

\* the operations that write a stock row outside a transaction
ManualWrites == {"update_stock", "toggle", "update_material"}

\* units that the answered manual writes added to a row
AdjustedUnits(op, rowID) ==
  SumOver([r \in Reqs |-> inflight[r].quantity],
          {r \in Reqs : /\ inflight[r].op = op /\ inflight[r].pc = "done"
                        /\ inflight[r].code = 200 /\ inflight[r].row = rowID})

\* the amount the committed orders deducted from a raw material
DeductedAmount(materialID) ==
  SumOver([id \in 1..Len(transactions) |->
             Requirement(transactions[id].items, links, materialID)],
          (Len(InitialTransactions) + 1)..Len(transactions))

\* C28: a manual stock write that runs concurrently with an order on the same
\* row loses neither update: whatever the interleaving of inventory
\* UpdateStock, product ToggleActive or material UpdateStock with Create, the
\* stock_qty of the row is its initial value less what the committed orders
\* took plus what the answered adjustments added.  Stated on the states in
\* which one manual write at most runs beside the orders.
ManualWritesKeepOrders ==
  Cardinality({r \in Reqs : inflight[r].op \in ManualWrites}) <= 1
    => /\ products["P1"].stock_qty
            = NumReq - OrderedUnits("P1") + AdjustedUnits("update_stock", "P1")
       /\ materials["M1"].stock_qty
            = InitialMaterials["M1"].stock_qty - DeductedAmount("M1")
                + AdjustedUnits("update_material", "M1")

\* C30: after any sequence and any interleaving of LinkMaterial and
\* UnlinkMaterial requests there is at most one recipe link per (product,
\* material) pair, and every stored link has conversion_rate > 0.
OneLinkPerPair ==
  /\ \A a \in links : \A b \in links :
       (a.product_id = b.product_id /\ a.material_id = b.material_id) => a = b
  /\ \A pm \in links : pm.conversion_rate > 0

====
